---- MODULE Spec2Model ----
(***************************************************************************)
(* The relay of mcp-server/index.js (submission queue, pending table,      *)
(* active peer, both relay roles) together with the part of the browser    *)
(* agent of extension/background.js that answers tool_call messages.       *)
(*                                                                         *)
(* Both programs are single threaded: every action below is one handler    *)
(* run to its next suspension point, including the promise continuations   *)
(* (microtasks) that the handler makes runnable.                           *)
(***************************************************************************)
EXTENDS Naturals, Sequences, FiniteSets

\* ------------------------------------------------------------------ bounds
MaxCalls == 3
MaxConns == 2
MaxRestarts == 1
MaxSidebar == 1
MaxExec == 2
MaxSockets == 12
MaxPings == 4
MaxLines == 2
MaxTabs == 2
MaxOps == 3
MaxLog == 1
MaxEvents == 102
MaxCaptures == 2
MaxErrors == 2
MaxClears == 1

Calls == 1..MaxCalls
Conns == 1..MaxConns

\* ------------------------------------------------------------------- state
VARIABLES
  role,               \* "server" (listening) or "client" (dialled out)
  chromeClient,       \* the active peer connection, 0 for null
  pendingRequests,    \* Map id -> resolver; the resolver is named by its call
  timers,             \* armed 30 s timers: id -> call whose promise they settle
  requestId,
  requestQueue,       \* sequence of queued calls
  isProcessingQueue,
  pc,                 \* where processQueue is suspended: idle / await / delay
  awaiting,           \* the call whose inner promise processQueue awaits, 0 if none
  nextCall,           \* number of callTool invocations so far
  resolveLog,         \* every invocation of a caller's resolve, in order
  sentLog,            \* every tool_call handed to chromeClient.send, in order
  discarded,          \* ids of the tool_result messages the relay dropped
  restarts,           \* number of relay process restarts
  dialled,            \* connectAsClient has run in this relay process
  rstate,             \* relay side readyState per connection
  asock,              \* agent side readyState per connection
  wire,               \* tool_call messages in flight to the agent, per connection
  toRelay,            \* messages in flight to the relay, per connection
  mcpWebSocket,       \* the agent's current socket, 0 for null
  messageQueue,
  isProcessingMessages,
  executing,          \* the tool_call the agent is executing, NoMsg if none
  sidebarCalls,       \* executeToolCall runs started by SIDEBAR_TOOL_CALL, in progress
  agentEnabled,
  activeTab,          \* chrome.tabs.query finds an active tab in the current window
  xcall,              \* the executeToolCall run that is followed step by step
  xlog,               \* the runs of executeToolCall that have returned, in order
  booted,             \* the auto-connect of service worker start-up has run
  relayUp,            \* something accepts connections on the relay's port
  shouldReconnect,
  reconnectAttempts,
  reconnectTimer,     \* TRUE when the variable holds a timer handle
  timeouts,           \* number of reconnect timeouts that are armed
  mcpServerRunning,
  keepaliveInterval,  \* TRUE when the 10 s interval is set
  created,            \* number of sockets startMCPServer has created
  wsockets,           \* the live sockets mcpWebSocket does not refer to any more
  wcurrent,           \* readyState of the socket mcpWebSocket refers to, or "null"
  badge,              \* what updateBadge showed last
  pstate,             \* readyState of the connection whose liveness is followed
  pingInterval,       \* TRUE while its 15 s interval is set
  isAlive,
  pingWire,           \* pings on their way to the peer (numbered as sent)
  pongWire,           \* pongs on their way to the relay
  answered,           \* per ping sent: its pong, or a pong or message after it, arrived
  errored,            \* an 'error' event came after the last thing received
  terminated,         \* ws.terminate() has been called by the interval
  checker,            \* the probe socket of startWsServer
  stdout,             \* the response lines handleMcp itself has written, in order
  callReq,            \* per call of callTool: the id of its request line, 0 if none
  requests,           \* the request lines read from stdin, in order
  lazyStart,          \* the relay file that runs starts its peer channel on initialize
  serverStarted,      \* its flag serverStarted
  startTimers,        \* pending setTimeout(startWsServer, 50)
  probes,             \* number of calls of startWsServer
  debuggerAttached,   \* tabId -> its session object, 0 for no entry
  sessions,           \* the session objects created so far: their domains sets
  chromeAttached,     \* the tabs the browser has this extension's debugger on
  tabsOpen,           \* the tabs that exist
  networkRequests,    \* Map tabId -> the requests logged (see EmptyLog)
  consoleLogs,        \* Map tabId -> the console entries and exceptions logged
  animations,         \* Map tabId -> the animations logged
  extensionErrorStore, \* Map extensionId -> its store object (an index of stores)
  cdp,                \* the debugger operation that is suspended at an await
  returned,           \* what the last debugger function called has returned
  opsStarted,         \* number of debugger operations called
  capture,            \* the invocations of captureExtensionErrors
  stores,             \* the store objects created so far
  epoch,              \* the time: number of clear_extension_errors calls so far
  agentPermissions,   \* the permissions that are granted (true in agentPermissions)
  asked               \* the last navigation, screenshot or script run asked for

relayVars == <<role, chromeClient, pendingRequests, timers, requestId, requestQueue,
               isProcessingQueue, pc, awaiting, nextCall, resolveLog, sentLog,
               discarded, restarts, dialled>>
connVars == <<rstate, asock, wire, toRelay>>
agentVars == <<mcpWebSocket, messageQueue, isProcessingMessages, executing>>
\* the state of the components the relay and the dispatcher do not touch
execVars == <<agentEnabled, agentPermissions, activeTab, xcall, xlog, asked>>
reconnVars == <<booted, relayUp, shouldReconnect, reconnectAttempts, reconnectTimer,
                timeouts, mcpServerRunning, keepaliveInterval, created, wsockets,
                wcurrent, badge>>
pingVars == <<pstate, pingInterval, isAlive, pingWire, pongWire, answered, errored,
              terminated>>
frontVars == <<stdout, callReq, requests>>
startVars == <<lazyStart, serverStarted, startTimers, probes>>
\* what callTool leaves alone besides the relay's and the agent's state
debugVars == <<debuggerAttached, sessions, chromeAttached, tabsOpen, networkRequests,
               consoleLogs, animations, extensionErrorStore, cdp, returned, opsStarted>>
captureVars == <<capture, stores, epoch>>
backVars == <<sidebarCalls, execVars, reconnVars, pingVars, checker, debugVars,
              captureVars>>
extVars == <<backVars, frontVars, startVars>>
exceptRelay == <<connVars, agentVars, sidebarCalls, execVars, reconnVars, pingVars,
                 frontVars, startVars, debugVars, captureVars>>
exceptSidebar == <<relayVars, connVars, agentVars, execVars, reconnVars, pingVars,
                   checker, frontVars, startVars, debugVars, captureVars>>
exceptExec == <<relayVars, connVars, agentVars, sidebarCalls, reconnVars, pingVars,
                checker, frontVars, startVars, debugVars, captureVars>>
exceptReconn == <<relayVars, connVars, agentVars, sidebarCalls, execVars, pingVars,
                  checker, frontVars, startVars, debugVars, captureVars>>
exceptPing == <<relayVars, connVars, agentVars, sidebarCalls, execVars, reconnVars,
                checker, frontVars, startVars, debugVars, captureVars>>
exceptCapture == <<relayVars, connVars, agentVars, sidebarCalls, execVars,
                   reconnVars, pingVars, checker, frontVars, startVars>>
exceptDebug == <<exceptCapture, captureVars>>
vars == <<relayVars, connVars, agentVars, extVars>>

NoMsg == [id |-> 0, call |-> 0]
EmptyMap == [x \in {} |-> 0]

\* ---------------------------------------------------------------- values
Result(k) == [error |-> "", forCall |-> k]
ErrorValue(e) == [error |-> e, forCall |-> 0]
NotConnected == ErrorValue("Not connected")
TimeoutError == ErrorValue("Timeout")
ConnectionClosed == ErrorValue("Connection closed")
SendFailed == ErrorValue("Send failed")
\* {error: error.message} of an exception thrown by executeToolCall
ThrownError == ErrorValue("Tool execution error")

RegisterMsg == [type |-> "register", id |-> 0, result |-> ErrorValue("")]
ToolResultMsg(id, r) == [type |-> "tool_result", id |-> id, result |-> r]

MapSet(m, key, v) == [x \in DOMAIN m \cup {key} |-> IF x = key THEN v ELSE m[x]]
MapDelete(m, key) == [x \in DOMAIN m \ {key} |-> m[x]]

\* ------------------------------------------------------------------ relay
\* The fields processQueue and the resolvers change, as one record.
RelayRec ==
  [q |-> requestQueue, log |-> resolveLog, requestId |-> requestId,
   pending |-> pendingRequests, timers |-> timers, sent |-> sentLog,
   wire |-> wire, pc |-> pc, awaiting |-> awaiting,
   isProcessingQueue |-> isProcessingQueue]

SetRelay(r) ==
  /\ requestQueue' = r.q
  /\ resolveLog' = r.log
  /\ requestId' = r.requestId
  /\ pendingRequests' = r.pending
  /\ timers' = r.timers
  /\ sentLog' = r.sent
  /\ wire' = r.wire
  /\ pc' = r.pc
  /\ awaiting' = r.awaiting
  /\ isProcessingQueue' = r.isProcessingQueue

\* chromeClient && chromeClient.readyState === WebSocket.OPEN
PeerOpen == chromeClient # 0 /\ rstate[chromeClient] = "open"

\* The caller's resolve callback of call k is invoked with value v.
Resolve(r, k, v) == [r EXCEPT !.log = Append(@, [call |-> k, value |-> v])]

\* EndIteration of a loop written with `if` for `while`: the run ends after
\* one request, whatever is queued.
EndIterationOnce(r) ==
  [r EXCEPT !.isProcessingQueue = FALSE, !.pc = "idle", !.awaiting = 0]

\* The end of one iteration of the while loop after resolve(result): the 50 ms
\* pause if more is queued, otherwise the loop ends.
EndIteration(r) ==
  IF r.q # <<>>
  THEN [r EXCEPT !.pc = "delay", !.awaiting = 0]
  ELSE [r EXCEPT !.isProcessingQueue = FALSE, !.pc = "idle", !.awaiting = 0]

\* Dispatch that computes the id without storing it (requestId + 1 for ++requestId).
DispatchReusesId(r, k, fail) ==
  LET id == r.requestId + 1
  IN IF fail
     THEN EndIteration(Resolve(r, k, SendFailed))
     ELSE [r EXCEPT
             !.timers = MapSet(@, id, k),
             !.pending = MapSet(@, id, k),
             !.sent = Append(@, [id |-> id, call |-> k, conn |-> chromeClient]),
             !.wire[chromeClient] = Append(@, [id |-> id, call |-> k]),
             !.pc = "await", !.awaiting = k]

\* The iteration for call k with an open peer: allocate the id, arm the timer,
\* install the resolver and send.  fail: chromeClient.send throws, the catch
\* removes timer and entry again and settles the promise with the send error.
Dispatch(r, k, fail) ==
  LET id == r.requestId + 1
      r1 == [r EXCEPT !.requestId = id]
  IN IF fail
     THEN EndIteration(Resolve(r1, k, SendFailed))
     ELSE [r1 EXCEPT
             !.timers = MapSet(@, id, k),
             !.pending = MapSet(@, id, k),
             !.sent = Append(@, [id |-> id, call |-> k, conn |-> chromeClient]),
             !.wire[chromeClient] = Append(@, [id |-> id, call |-> k]),
             !.pc = "await", !.awaiting = k]

\* QueueLoop without the `continue` after resolve({error: 'Not connected'}):
\* the iteration goes on to send on the missing peer, which throws.
QueueLoopNoContinue(r, fail) ==
  IF r.q = <<>>
  THEN [r EXCEPT !.isProcessingQueue = FALSE, !.pc = "idle", !.awaiting = 0]
  ELSE LET k == Head(r.q)
           r1 == [r EXCEPT !.q = Tail(@)]
       IN IF ~PeerOpen
          THEN Dispatch(Resolve(r1, k, NotConnected), k, TRUE)
          ELSE Dispatch(r1, k, fail)

\* QueueLoop that leaves a request queued while no peer is open.
QueueLoopKeepsQueued(r, fail) ==
  IF r.q = <<>> \/ ~PeerOpen
  THEN [r EXCEPT !.isProcessingQueue = FALSE, !.pc = "idle", !.awaiting = 0]
  ELSE Dispatch([r EXCEPT !.q = Tail(@)], Head(r.q), fail)

\* processQueue from the head of its while loop to its next suspension.
\* fail: whether chromeClient.send throws in this run.
RECURSIVE QueueLoop(_, _)
QueueLoop(r, fail) ==
  IF r.q = <<>>
  THEN [r EXCEPT !.isProcessingQueue = FALSE, !.pc = "idle", !.awaiting = 0]
  ELSE LET k == Head(r.q)
           r1 == [r EXCEPT !.q = Tail(@)]
       IN IF ~PeerOpen
          THEN QueueLoop(Resolve(r1, k, NotConnected), fail)
          ELSE Dispatch(r1, k, fail)

\* processQueue without the isProcessingQueue guard.
processQueueReentrant(r, fail) ==
  IF r.q = <<>>
  THEN r
  ELSE QueueLoop([r EXCEPT !.isProcessingQueue = TRUE], fail)

\* processQueue(): returns at once when a run is in progress or nothing is queued.
processQueue(r, fail) ==
  IF r.isProcessingQueue \/ r.q = <<>>
  THEN r
  ELSE QueueLoop([r EXCEPT !.isProcessingQueue = TRUE], fail)

\* The code after `await new Promise(...)`, run when call k's promise settles with v.
Continue(r, k, v) == EndIteration(Resolve(r, k, v))

\* res(v) of call k's inner promise: settles it only if it is still awaited.
Settle(r, k, v) ==
  IF r.pc = "await" /\ r.awaiting = k THEN Continue(r, k, v) ELSE r

\* The resolver stored under id: (r) => { clearTimeout(timer); res(r) }.
Resolver(r, id, v) ==
  Settle([r EXCEPT !.timers = MapDelete(@, id)], r.pending[id], v)

\* callTool that puts the request at the head of the queue (unshift for push).
callToolUnshift(fail) ==
  /\ nextCall < MaxCalls
  /\ nextCall' = nextCall + 1
  /\ SetRelay(processQueue([RelayRec EXCEPT !.q = <<nextCall + 1>> \o @], fail))
  /\ UNCHANGED <<role, chromeClient, discarded, restarts, dialled, rstate, asock,
                 toRelay, agentVars,
                 backVars>>

\* callTool(name, args)
callTool(fail) ==
  /\ nextCall < MaxCalls
  /\ nextCall' = nextCall + 1
  /\ SetRelay(processQueue([RelayRec EXCEPT !.q = Append(@, nextCall + 1)], fail))
  /\ UNCHANGED <<role, chromeClient, discarded, restarts, dialled, rstate, asock,
                 toRelay, agentVars,
                 backVars>>

\* A tools/call whose request line is not followed.
SubmitCall(fail) == callTool(fail) /\ UNCHANGED <<frontVars, startVars>>

\* The 50 ms pause between two requests is over.
DelayDone(fail) ==
  /\ pc = "delay"
  /\ SetRelay(QueueLoop(RelayRec, fail))
  /\ UNCHANGED <<role, chromeClient, nextCall, discarded, restarts, dialled, rstate,
                 asock, toRelay, agentVars,
                 extVars>>

\* TimerFire without pendingRequests.delete(id).
TimerFireKeepsEntry(id) ==
  /\ id \in DOMAIN timers
  /\ SetRelay(Settle([RelayRec EXCEPT !.timers = MapDelete(@, id)],
                     timers[id], TimeoutError))
  /\ UNCHANGED <<role, chromeClient, nextCall, discarded, restarts, dialled, rstate,
                 asock, toRelay, agentVars,
                 extVars>>

\* The 30 s timer of the tool_call with this id fires.
TimerFire(id) ==
  /\ id \in DOMAIN timers
  /\ SetRelay(Settle([RelayRec EXCEPT !.pending = MapDelete(@, id),
                                      !.timers = MapDelete(@, id)],
                     timers[id], TimeoutError))
  /\ UNCHANGED <<role, chromeClient, nextCall, discarded, restarts, dialled, rstate,
                 asock, toRelay, agentVars,
                 extVars>>

\* ToolResult that hands a result with an unknown id to the call being awaited.
ToolResultFallback(r, msg) ==
  IF msg.id \in DOMAIN r.pending
  THEN [Resolver(r, msg.id, msg.result) EXCEPT !.pending = MapDelete(@, msg.id)]
  ELSE Settle(r, r.awaiting, msg.result)

\* The tool_result branch of both message handlers.
ToolResult(r, msg) ==
  IF msg.id \in DOMAIN r.pending
  THEN [Resolver(r, msg.id, msg.result) EXCEPT !.pending = MapDelete(@, msg.id)]
  ELSE r

\* The register branch that keeps an active peer that is already set.
OnRegisterKeepsFirst(c) == chromeClient' = IF chromeClient = 0 THEN c ELSE chromeClient

\* The register branch of the server role's message handler.
OnRegister(c) == chromeClient' = c

Deliverable(c) == rstate[c] \in {"open", "closing"} /\ toRelay[c] # <<>>

\* ws.on('message') of a connection accepted in the server role.
ServerMessage(c) ==
  /\ role = "server"
  /\ Deliverable(c)
  /\ LET msg == Head(toRelay[c])
     IN /\ toRelay' = [toRelay EXCEPT ![c] = Tail(@)]
        /\ IF msg.type = "register"
           THEN /\ OnRegister(c)
                /\ SetRelay(RelayRec)
                /\ UNCHANGED discarded
           ELSE /\ SetRelay(ToolResult(RelayRec, msg))
                /\ discarded' = IF msg.id \in DOMAIN pendingRequests
                                THEN discarded ELSE discarded \cup {msg.id}
                /\ UNCHANGED chromeClient
  /\ UNCHANGED <<role, nextCall, restarts, dialled, rstate, asock, agentVars,
                 extVars>>

\* ws.on('message') of the connection dialled in the client role.
ClientMessage(c) ==
  /\ role = "client"
  /\ Deliverable(c)
  /\ LET msg == Head(toRelay[c])
     IN /\ toRelay' = [toRelay EXCEPT ![c] = Tail(@)]
        /\ IF msg.type = "tool_result"
           THEN /\ SetRelay(ToolResult(RelayRec, msg))
                /\ discarded' = IF msg.id \in DOMAIN pendingRequests
                                THEN discarded ELSE discarded \cup {msg.id}
           ELSE /\ SetRelay(RelayRec)
                /\ UNCHANGED discarded
  /\ UNCHANGED <<role, chromeClient, nextCall, restarts, dialled, rstate, asock,
                 agentVars,
                 extVars>>

\* pendingRequests.forEach(resolve => resolve({error: 'Connection closed'}));
\* pendingRequests.clear()
RECURSIVE ResolveAll(_, _)
ResolveAll(r, ids) ==
  IF ids = {}
  THEN [r EXCEPT !.pending = EmptyMap]
  ELSE LET id == CHOOSE i \in ids : \A j \in ids : i <= j
       IN ResolveAll(Resolver(r, id, ConnectionClosed), ids \ {id})

\* OnClose that clears the table without calling the resolvers.
OnCloseClearOnly(c) ==
  IF c = chromeClient
  THEN /\ chromeClient' = 0
       /\ SetRelay([RelayRec EXCEPT !.pending = EmptyMap])
  ELSE /\ SetRelay(RelayRec)
       /\ UNCHANGED chromeClient

\* OnClose without the test `ws === chromeClient`.
OnCloseAnyConnection(c) ==
  /\ chromeClient' = 0
  /\ SetRelay(ResolveAll(RelayRec, DOMAIN pendingRequests))

\* The body shared by both close handlers.
OnClose(c) ==
  IF c = chromeClient
  THEN /\ chromeClient' = 0
       /\ SetRelay(ResolveAll(RelayRec, DOMAIN pendingRequests))
  ELSE /\ SetRelay(RelayRec)
       /\ UNCHANGED chromeClient

\* The connection starts closing (close frame received, or terminate()):
\* readyState leaves OPEN before the 'close' event is emitted.
RelayClosing(c) ==
  /\ rstate[c] = "open"
  /\ rstate' = [rstate EXCEPT ![c] = "closing"]
  /\ UNCHANGED <<relayVars, asock, wire, toRelay, agentVars,
                 extVars>>

\* ws.on('close') in the server role.
ServerClose(c) ==
  /\ role = "server"
  /\ rstate[c] \in {"open", "closing"}
  /\ rstate' = [rstate EXCEPT ![c] = "closed"]
  /\ toRelay' = [toRelay EXCEPT ![c] = <<>>]
  /\ OnClose(c)
  /\ UNCHANGED <<role, nextCall, discarded, restarts, dialled, asock, agentVars,
                 extVars>>

\* ws.on('close') in the client role.
ClientClose(c) ==
  /\ role = "client"
  /\ rstate[c] \in {"open", "closing"}
  /\ rstate' = [rstate EXCEPT ![c] = "closed"]
  /\ toRelay' = [toRelay EXCEPT ![c] = <<>>]
  /\ OnClose(c)
  /\ UNCHANGED <<role, nextCall, discarded, restarts, dialled, asock, agentVars,
                 extVars>>

Unused(c) == rstate[c] = "none" /\ asock[c] = "none"
NextConn(c) == Unused(c) /\ \A d \in Conns : d < c => ~Unused(d)

\* connectAsClient: ws.on('open'); the listening peer has accepted the socket.
ClientOpen(c) ==
  /\ role = "client"
  /\ ~dialled
  /\ NextConn(c)
  /\ dialled' = TRUE
  /\ rstate' = [rstate EXCEPT ![c] = "open"]
  /\ asock' = [asock EXCEPT ![c] = "open"]
  /\ chromeClient' = c
  /\ mcpWebSocket' = c
  /\ UNCHANGED <<role, pendingRequests, timers, requestId, requestQueue,
                 isProcessingQueue, pc, awaiting, nextCall, resolveLog, sentLog,
                 discarded, restarts, wire, toRelay, messageQueue,
                 isProcessingMessages, executing,
                 extVars>>

\* connectAsClient: the socket fails before it opens ('error', then 'close'
\* for a socket that never became chromeClient).
ClientDialFail(c) ==
  /\ role = "client"
  /\ ~dialled
  /\ NextConn(c)
  /\ dialled' = TRUE
  /\ rstate' = [rstate EXCEPT ![c] = "closed"]
  /\ asock' = [asock EXCEPT ![c] = "closed"]
  /\ OnClose(c)
  /\ UNCHANGED <<role, nextCall, discarded, restarts, toRelay, agentVars,
                 extVars>>

\* The relay process ends and a new one is started: the module-level state is
\* initialised again, the old process's sockets are gone; the agent lives on.
RelayRestart ==
  /\ restarts < MaxRestarts
  /\ restarts' = restarts + 1
  /\ dialled' = FALSE
  /\ chromeClient' = 0
  /\ pendingRequests' = EmptyMap
  /\ timers' = EmptyMap
  /\ requestId' = 0
  /\ requestQueue' = <<>>
  /\ isProcessingQueue' = FALSE
  /\ pc' = "idle"
  /\ awaiting' = 0
  /\ rstate' = [c \in Conns |-> IF rstate[c] = "none" THEN "none" ELSE "closed"]
  /\ toRelay' = [c \in Conns |-> <<>>]
  /\ UNCHANGED <<role, nextCall, resolveLog, sentLog, discarded, asock, wire,
                 agentVars,
                 extVars>>

\* ------------------------------------------------------------------ agent
\* mcpWebSocket && mcpWebSocket.readyState === WebSocket.OPEN
SocketOpen == mcpWebSocket # 0 /\ asock[mcpWebSocket] = "open"

\* startMCPServer: new WebSocket, onopen sends register; the relay's
\* wss.on('connection') accepts the socket.  Every caller (start-up, the
\* reconnect timer set by onclose, the keepalive tick, the popup's connect
\* button) runs only while the current socket is not open.
AgentConnect(c) ==
  /\ role = "server"
  /\ NextConn(c)
  /\ ~SocketOpen
  /\ rstate' = [rstate EXCEPT ![c] = "open"]
  /\ asock' = [asock EXCEPT ![c] = "open"]
  /\ mcpWebSocket' = c
  /\ toRelay' = [toRelay EXCEPT ![c] = <<RegisterMsg>>]
  /\ UNCHANGED <<relayVars, wire, messageQueue, isProcessingMessages, executing,
                 extVars>>

\* processMessageQueue from the head of its while loop to the await of
\* executeToolCall.
AgentLoop(q) ==
  IF q = <<>>
  THEN [queue |-> q, processing |-> FALSE, executing |-> NoMsg]
  ELSE [queue |-> Tail(q), processing |-> TRUE, executing |-> Head(q)]

\* mcpWebSocket.onmessage -> handleMCPMessage for a tool_call.
handleMCPMessage(c) ==
  /\ asock[c] = "open"
  /\ wire[c] # <<>>
  /\ wire' = [wire EXCEPT ![c] = Tail(@)]
  /\ LET q == Append(messageQueue, Head(wire[c]))
         a == IF isProcessingMessages
              THEN [queue |-> q, processing |-> TRUE, executing |-> executing]
              ELSE AgentLoop(q)
     IN /\ messageQueue' = a.queue
        /\ isProcessingMessages' = a.processing
        /\ executing' = a.executing
  /\ UNCHANGED <<relayVars, rstate, asock, toRelay, mcpWebSocket,
                 extVars>>

\* processMessageQueue whose catch block only logs: no result for a thrown error.
processMessageQueueDropsThrown(threw) ==
  /\ executing # NoMsg
  /\ toRelay' =
       IF SocketOpen /\ ~threw
       THEN [toRelay EXCEPT ![mcpWebSocket] =
               Append(@, ToolResultMsg(executing.id, Result(executing.call)))]
       ELSE toRelay
  /\ LET a == AgentLoop(messageQueue)
     IN /\ messageQueue' = a.queue
        /\ isProcessingMessages' = a.processing
        /\ executing' = a.executing
  /\ UNCHANGED <<relayVars, rstate, asock, wire, mcpWebSocket,
                 extVars>>

\* executeToolCall has returned or thrown (threw: the catch block makes the
\* result {error: error.message}): send the result on the current socket if
\* it is open, then take the next queued message.
processMessageQueue(threw) ==
  /\ executing # NoMsg
  /\ toRelay' =
       IF SocketOpen
       THEN [toRelay EXCEPT ![mcpWebSocket] =
               Append(@, ToolResultMsg(executing.id,
                                       IF threw THEN ThrownError
                                       ELSE Result(executing.call)))]
       ELSE toRelay
  /\ LET a == AgentLoop(messageQueue)
     IN /\ messageQueue' = a.queue
        /\ isProcessingMessages' = a.processing
        /\ executing' = a.executing
  /\ UNCHANGED <<relayVars, rstate, asock, wire, mcpWebSocket,
                 extVars>>

\* mcpWebSocket.onclose: the agent's socket is closed; what was in flight to
\* it is lost.
AgentSockClose(c) ==
  /\ asock[c] = "open"
  /\ asock' = [asock EXCEPT ![c] = "closed"]
  /\ wire' = [wire EXCEPT ![c] = <<>>]
  /\ UNCHANGED <<relayVars, rstate, toRelay, agentVars,
                 extVars>>

\* ---------------------------------------------------------------- sidebar
\* handleMessage, case 'SIDEBAR_TOOL_CALL': executeToolCall is called directly,
\* whatever processMessageQueue is doing, and awaited.
SidebarToolCall ==
  /\ sidebarCalls < MaxSidebar
  /\ sidebarCalls' = sidebarCalls + 1
  /\ UNCHANGED exceptSidebar

\* The executeToolCall run of a SIDEBAR_TOOL_CALL returns; handleMessage
\* hands its result to sendResponse.
SidebarToolDone ==
  /\ sidebarCalls > 0
  /\ sidebarCalls' = sidebarCalls - 1
  /\ UNCHANGED exceptSidebar

\* -------------------------------------------------------- executeToolCall
noAgentRequired ==
  {"browser_snapshot", "get_page_info", "list_extensions", "reload_extension",
   "get_extension_info", "enable_extension", "disable_extension",
   "open_extension_popup", "open_extension_options", "open_extension_devtools",
   "open_extension_errors", "trigger_extension_action",
   "get_extension_popup_content", "interact_with_extension", "close_tab",
   "cdp_attach", "cdp_detach", "cdp_command"}

noTabRequired ==
  {"list_extensions", "reload_extension", "get_extension_info",
   "enable_extension", "disable_extension", "open_extension_popup",
   "open_extension_options", "open_extension_devtools", "open_extension_errors",
   "trigger_extension_action", "get_extension_popup_content",
   "interact_with_extension", "close_tab"}

\* The tools the runs are called with: one of neither table, one that needs a
\* tab only, one of both tables.
Tools == {"browser_click", "browser_snapshot", "list_extensions"}

NoExec == [tool |-> "", phase |-> "none", enabled |-> FALSE, tab |-> FALSE]

\* A run that has returned: what it returned, the value of agentEnabled when
\* it was called, whether tabs.query found a tab, whether the switch over the
\* tools (the operation) was entered.
Returned(x, outcome, attempted) ==
  [tool |-> x.tool, outcome |-> outcome, enabled |-> x.enabled, tab |-> x.tab,
   attempted |-> attempted]

\* executeToolCall that does not test agentEnabled.
ExecCallNoPermissionTest(tool) ==
  /\ xcall = NoExec
  /\ Len(xlog) < MaxExec
  /\ LET x == [tool |-> tool, phase |-> "query", enabled |-> agentEnabled,
               tab |-> FALSE]
     IN IF tool \notin noTabRequired
        THEN xcall' = x /\ UNCHANGED xlog
        ELSE xcall' = [x EXCEPT !.phase = "operation"] /\ UNCHANGED xlog
  /\ UNCHANGED <<agentEnabled, agentPermissions, activeTab, asked, exceptExec>>

\* executeToolCall(tool, params) up to its first await: the permission test,
\* then either the tabs.query or, for a tool that needs no tab, the operation.
ExecCall(tool) ==
  /\ xcall = NoExec
  /\ Len(xlog) < MaxExec
  /\ LET x == [tool |-> tool, phase |-> "query", enabled |-> agentEnabled,
               tab |-> FALSE]
     IN IF ~agentEnabled /\ tool \notin noAgentRequired
        THEN /\ xlog' = Append(xlog, Returned(x, "Agent control is disabled", FALSE))
             /\ UNCHANGED xcall
        ELSE IF tool \notin noTabRequired
        THEN xcall' = x /\ UNCHANGED xlog
        ELSE xcall' = [x EXCEPT !.phase = "operation"] /\ UNCHANGED xlog
  /\ UNCHANGED <<agentEnabled, agentPermissions, activeTab, asked, exceptExec>>

\* The three permissions that guard an operation of the browser.
Permissions == {"navigation", "screenshot", "scripts"}

\* The tools that navigate, take a screenshot and run a script, with the
\* permission each of them is about.
Guarded == [browser_navigate |-> "navigation", browser_screenshot |-> "screenshot",
            browser_evaluate |-> "scripts"]

\* The test that opens navigateTab, takeScreenshot and executeScript:
\* if (!agentPermissions.X && agentEnabled) return { error: '... not permitted' }.
\* The case 'browser_evaluate' of executeToolCall calls
\* chrome.scripting.executeScript itself and has no test.
Refused(kind, via) ==
  /\ ~(via = "tool" /\ kind = "scripts")
  /\ kind \notin agentPermissions /\ agentEnabled

NoAsk == [kind |-> "", via |-> "", outcome |-> "none", enabled |-> FALSE,
          granted |-> FALSE]

\* What becomes of a request for an operation of the kind, with the flags as
\* they are when it is decided.
Asked(kind, via) ==
  [kind |-> kind, via |-> via,
   outcome |-> IF Refused(kind, via) THEN "refused" ELSE "performed",
   enabled |-> agentEnabled, granted |-> kind \in agentPermissions]

\* chrome.tabs.query has answered: without an active tab the run returns
\* 'No active tab', otherwise the operation starts. The three guarded
\* operations start with their test, which may return at once.
ExecTabsQuery ==
  /\ xcall.phase = "query"
  /\ IF ~activeTab
     THEN /\ xlog' = Append(xlog, Returned(xcall, "No active tab", FALSE))
          /\ xcall' = NoExec
          /\ UNCHANGED asked
     ELSE IF xcall.tool \in DOMAIN Guarded
     THEN /\ asked' = Asked(Guarded[xcall.tool], "tool")
          /\ IF Refused(Guarded[xcall.tool], "tool")
             THEN /\ xlog' = Append(xlog, Returned([xcall EXCEPT !.tab = TRUE],
                                                   "not permitted", TRUE))
                  /\ xcall' = NoExec
             ELSE /\ xcall' = [xcall EXCEPT !.phase = "operation", !.tab = TRUE]
                  /\ UNCHANGED xlog
     ELSE /\ xcall' = [xcall EXCEPT !.phase = "operation", !.tab = TRUE]
          /\ UNCHANGED <<xlog, asked>>
  /\ UNCHANGED <<agentEnabled, agentPermissions, activeTab, exceptExec>>

\* The operation chosen by the switch has returned or thrown (the catch makes
\* the result {error: error.message}).
ExecOperationDone(threw) ==
  /\ xcall.phase = "operation"
  /\ xlog' = Append(xlog, Returned(xcall, IF threw THEN "error" ELSE "result", TRUE))
  /\ xcall' = NoExec
  /\ UNCHANGED <<agentEnabled, agentPermissions, activeTab, asked, exceptExec>>

\* handleMessage, case 'SET_AGENT_ENABLED': agentEnabled = message.enabled;
\* agentPermissions = message.permissions || {}
SetAgentEnabled(enabled, permissions) ==
  /\ agentEnabled' = enabled
  /\ agentPermissions' = permissions
  /\ UNCHANGED <<activeTab, xcall, xlog, asked, exceptExec>>

\* The kind of operation a message of the popup, of a content script or of
\* another extension asks for.
MessageTypes == [NAVIGATE |-> "navigation", TAKE_SCREENSHOT |-> "screenshot",
                 EXECUTE_SCRIPT |-> "scripts"]

\* handleMessage, cases 'NAVIGATE', 'TAKE_SCREENSHOT' and 'EXECUTE_SCRIPT':
\* navigateTab, takeScreenshot or executeScript is called at once and starts
\* with its test.
OnMessage(type) ==
  /\ asked' = Asked(MessageTypes[type], "message")
  /\ UNCHANGED <<agentEnabled, agentPermissions, activeTab, xcall, xlog, exceptExec>>

\* The user closes or opens the window's active tab.
ActiveTabChanges ==
  /\ activeTab' = ~activeTab
  /\ UNCHANGED <<agentEnabled, agentPermissions, xcall, xlog, asked, exceptExec>>

\* ------------------------------------------------- the agent's connection
MAX_RECONNECT_ATTEMPTS == 10

\* mcpWebSocket && mcpWebSocket.readyState === WebSocket.OPEN
CurrentOpen == wcurrent = "open"

\* The sockets mcpWebSocket no longer refers to, after it is assigned anew or
\* set to null: a socket that is still connecting, or one that can only close.
Detached(state) ==
  CASE state = "connecting" -> [wsockets EXCEPT !.connecting = @ + 1]
    [] state \in {"open", "closing"} -> [wsockets EXCEPT !.closing = @ + 1]
    [] OTHER -> wsockets

\* startMCPServer(port, host): clears the reconnect timer the variable holds
\* and creates a new socket, which becomes mcpWebSocket.  fired: the caller is
\* the callback of a reconnect timeout, which has set reconnectTimer to null
\* (whichever handle the variable held), so that nothing is cleared.
StartMCPServer(fired) ==
  /\ created < MaxSockets
  /\ created' = created + 1
  /\ reconnectTimer' = FALSE
  /\ timeouts' = IF fired \/ reconnectTimer THEN timeouts - 1 ELSE timeouts
  /\ wsockets' = Detached(wcurrent)
  /\ wcurrent' = "connecting"

\* The auto-connect at service worker start-up (autoReconnect is not false).
AutoConnect ==
  /\ ~booted
  /\ booted' = TRUE
  /\ shouldReconnect' = TRUE
  /\ StartMCPServer(FALSE)
  /\ UNCHANGED <<relayUp, reconnectAttempts, mcpServerRunning, keepaliveInterval,
                 badge, exceptReconn>>

\* A socket that is connecting, the current one or an earlier one, changes
\* its readyState to `to`.
SocketLeavesConnecting(current, to) ==
  IF current
  THEN /\ wcurrent = "connecting"
       /\ wcurrent' = to
       /\ UNCHANGED wsockets
  ELSE /\ wsockets.connecting > 0
       /\ wsockets' = [wsockets EXCEPT !.connecting = @ - 1,
                                       !.closing = IF to = "open" THEN @ + 1 ELSE @]
       /\ UNCHANGED wcurrent

\* onopen of a socket
SocketOpens(current) ==
  /\ relayUp
  /\ SocketLeavesConnecting(current, "open")
  /\ mcpServerRunning' = TRUE
  /\ reconnectAttempts' = 0
  /\ badge' = "connected"
  /\ keepaliveInterval' = TRUE
  /\ UNCHANGED <<booted, created, relayUp, shouldReconnect, reconnectTimer, timeouts,
                 exceptReconn>>

\* onclose of a socket: a reconnect is scheduled while attempts are left.
OnSocketClose ==
  /\ mcpServerRunning' = FALSE
  /\ keepaliveInterval' = FALSE
  /\ IF shouldReconnect /\ reconnectAttempts < MAX_RECONNECT_ATTEMPTS
     THEN /\ reconnectAttempts' = reconnectAttempts + 1
          /\ badge' = "reconnecting"
          /\ reconnectTimer' = TRUE
          /\ timeouts' = timeouts + 1
     ELSE /\ badge' = "disconnected"
          /\ UNCHANGED <<reconnectAttempts, reconnectTimer, timeouts>>

\* A socket does not get connected (refused, or closed by the 5 s connection
\* timeout): onerror, then onclose.
SocketFails(current) ==
  /\ SocketLeavesConnecting(current, "closed")
  /\ OnSocketClose
  /\ UNCHANGED <<booted, created, relayUp, shouldReconnect, exceptReconn>>

\* The connection of a socket ends: onclose.
SocketCloses(current) ==
  /\ IF current
     THEN /\ wcurrent \in {"open", "closing"}
          /\ wcurrent' = "closed"
          /\ UNCHANGED wsockets
     ELSE /\ wsockets.closing > 0
          /\ wsockets' = [wsockets EXCEPT !.closing = @ - 1]
          /\ UNCHANGED wcurrent
  /\ OnSocketClose
  /\ UNCHANGED <<booted, created, relayUp, shouldReconnect, exceptReconn>>

\* A reconnect timeout set by onclose fires.
ReconnectTimerFires ==
  /\ timeouts > 0
  /\ StartMCPServer(TRUE)
  /\ UNCHANGED <<booted, relayUp, shouldReconnect, reconnectAttempts,
                 mcpServerRunning, keepaliveInterval, badge, exceptReconn>>

\* The keepalive interval ticks: a ping on an open socket, else a reconnect.
KeepaliveTick ==
  /\ keepaliveInterval
  /\ IF CurrentOpen \/ ~(shouldReconnect /\ ~reconnectTimer)
     THEN UNCHANGED <<created, reconnectTimer, timeouts, wsockets, wcurrent,
                      mcpServerRunning, badge>>
     ELSE /\ mcpServerRunning' = FALSE
          /\ badge' = "reconnecting"
          /\ StartMCPServer(FALSE)
  /\ UNCHANGED <<booted, relayUp, shouldReconnect, reconnectAttempts,
                 keepaliveInterval, exceptReconn>>

\* chrome.alarms.onAlarm, alarm 'keepalive' (every 15 s), when it acts
AlarmTick ==
  /\ booted
  /\ shouldReconnect /\ ~mcpServerRunning /\ ~reconnectTimer
  /\ StartMCPServer(FALSE)
  /\ UNCHANGED <<booted, relayUp, shouldReconnect, reconnectAttempts,
                 mcpServerRunning, keepaliveInterval, badge, exceptReconn>>

\* handleMessage, case 'START_MCP_SERVER' (the popup offers it while
\* GET_MCP_STATUS answers connected: false)
PopupStart ==
  /\ booted
  /\ ~mcpServerRunning
  /\ shouldReconnect' = TRUE
  /\ reconnectAttempts' = 0
  /\ StartMCPServer(FALSE)
  /\ UNCHANGED <<booted, relayUp, mcpServerRunning, keepaliveInterval, badge,
                 exceptReconn>>

\* handleMessage, case 'STOP_MCP_SERVER', with stopMCPServer
PopupStop ==
  /\ booted
  /\ shouldReconnect
  /\ shouldReconnect' = FALSE
  /\ reconnectTimer' = FALSE
  /\ timeouts' = IF reconnectTimer THEN timeouts - 1 ELSE timeouts
  /\ keepaliveInterval' = FALSE
  /\ wsockets' = IF wcurrent = "connecting"
                 THEN [wsockets EXCEPT !.closing = @ + 1]
                 ELSE Detached(wcurrent)
  /\ wcurrent' = "null"
  /\ mcpServerRunning' = FALSE
  /\ badge' = "disconnected"
  /\ UNCHANGED <<booted, created, relayUp, reconnectAttempts, exceptReconn>>

\* The relay process is started or stopped.
RelayAvailability ==
  /\ relayUp' = ~relayUp
  /\ UNCHANGED <<booted, created, shouldReconnect, reconnectAttempts, reconnectTimer,
                 timeouts, mcpServerRunning, keepaliveInterval, wsockets, wcurrent,
                 badge,
                 exceptReconn>>

\* --------------------------------------------- liveness of a connection
\* wss.on('connection'): isAlive = true and the ping interval is set.
PingConnection ==
  /\ pstate = "none"
  /\ pstate' = "open"
  /\ isAlive' = TRUE
  /\ pingInterval' = TRUE
  /\ UNCHANGED <<pingWire, pongWire, answered, errored, terminated, exceptPing>>

\* The interval callback that sends a ping without testing isAlive first.
PingTickNeverTerminates ==
  /\ pingInterval
  /\ IF pstate = "open" /\ Len(answered) < MaxPings
     THEN /\ isAlive' = FALSE
          /\ pingWire' = Append(pingWire, Len(answered) + 1)
          /\ answered' = Append(answered, FALSE)
          /\ UNCHANGED <<pstate, terminated>>
     ELSE UNCHANGED <<pstate, terminated, isAlive, pingWire, answered>>
  /\ UNCHANGED <<pingInterval, pongWire, errored, exceptPing>>

\* The interval callback (every 15 s): terminate a connection that is not
\* alive, otherwise mark it not alive and ping.
PingTick ==
  /\ pingInterval
  /\ IF pstate = "open"
     THEN IF ~isAlive
          THEN /\ pstate' = "closing"
               /\ terminated' = TRUE
               /\ UNCHANGED <<isAlive, pingWire, answered>>
          ELSE /\ Len(answered) < MaxPings
               /\ isAlive' = FALSE
               /\ pingWire' = Append(pingWire, Len(answered) + 1)
               /\ answered' = Append(answered, FALSE)
               /\ UNCHANGED <<pstate, terminated>>
     ELSE UNCHANGED <<pstate, terminated, isAlive, pingWire, answered>>
  /\ UNCHANGED <<pingInterval, pongWire, errored, exceptPing>>

\* The peer receives a ping; its WebSocket implementation answers with a pong
\* (answers), or the peer is not responding and the ping is lost.
PeerGetsPing(answers) ==
  /\ pingWire # <<>>
  /\ pingWire' = Tail(pingWire)
  /\ pongWire' = IF answers THEN Append(pongWire, Head(pingWire)) ELSE pongWire
  /\ UNCHANGED <<pstate, pingInterval, isAlive, answered, errored, terminated,
                 exceptPing>>

\* ws.on('pong')
OnPong ==
  /\ pstate = "open"
  /\ pongWire # <<>>
  /\ pongWire' = Tail(pongWire)
  /\ isAlive' = TRUE
  /\ answered' = [answered EXCEPT ![Head(pongWire)] = TRUE, ![Len(answered)] = TRUE]
  /\ errored' = FALSE
  /\ UNCHANGED <<pstate, pingInterval, pingWire, terminated, exceptPing>>

\* ws.on('message'), first statement: any message means the connection is alive.
OnPingMessage ==
  /\ pstate = "open"
  /\ isAlive' = TRUE
  /\ answered' = IF answered = <<>> THEN answered
                 ELSE [answered EXCEPT ![Len(answered)] = TRUE]
  /\ errored' = FALSE
  /\ UNCHANGED <<pstate, pingInterval, pingWire, pongWire, terminated, exceptPing>>

\* ws.on('error')
OnPingError ==
  /\ pstate = "open"
  /\ isAlive' = FALSE
  /\ errored' = TRUE
  /\ UNCHANGED <<pstate, pingInterval, pingWire, pongWire, answered, terminated,
                 exceptPing>>

\* ws.on('close'), first statement: clearInterval(pingInterval)
OnPingClose ==
  /\ pstate \in {"open", "closing"}
  /\ pstate' = "closed"
  /\ pingInterval' = FALSE
  /\ pingWire' = <<>>
  /\ pongWire' = <<>>
  /\ UNCHANGED <<isAlive, answered, errored, terminated, exceptPing>>

\* ---------------------------------------------------------- debug sessions
Tabs == 1..MaxTabs
Domains == {"Network", "Runtime"}
Extensions == {"ext"}

\* No debugger operation is suspended.
\* The caps of the three per-tab lists.
NetworkLogMax == 100
ConsoleLogMax == 100
AnimationLogMax == 50

\* A per-tab list. Entries are only pushed at the end and shifted from the
\* front, so the list holds the entries number first+1 .. first+len, in the
\* order they arrived.
EmptyLog == [first |-> 0, len |-> 0]

NoCdp == [fn |-> "none", tab |-> 0, domain |-> "", verb |-> "", pc |-> "idle",
          tabData |-> 0, session |-> 0]

\* Nothing has been returned yet.
NoReturn == [fn |-> "none", tab |-> 0, value |-> ""]
Return(fn, tab, value) == [fn |-> fn, tab |-> tab, value |-> value]

\* The object attachDebugger records for a tab: { attached: true, domains: new
\* Set() }. enabled is not a member of it: it is the set of domains that an
\* enable sent by enableCDPDomain has enabled in the browser for this session.
NewSession == [domains |-> {}, enabled |-> {}]

\* debuggerAttached.get(tabId)?.attached
Attached(tab) == debuggerAttached[tab] # 0

\* The call may start: the tool calls of the agent run one at a time, for a tab
\* that exists.
MayCall(tab) == cdp = NoCdp /\ opsStarted < MaxOps /\ tab \in tabsOpen

\* session is the session the tab has when the command is issued.
\* The operation suspended after the part of sendCDPCommand that runs before
\* its first await, called as fn with the captured tabData: at
\* chrome.debugger.sendCommand if the tab has a session, at chrome.debugger.attach
\* otherwise.
StartCommand(fn, tab, domain, verb, tabData) ==
  [fn |-> fn, tab |-> tab, domain |-> domain, verb |-> verb,
   pc |-> IF Attached(tab) THEN "command" ELSE "attach", tabData |-> tabData,
   session |-> debuggerAttached[tab]]

\* attachDebugger that never answers "already".
CallAttachDebuggerAlways(tab) ==
  /\ MayCall(tab)
  /\ opsStarted' = opsStarted + 1
  /\ cdp' = [NoCdp EXCEPT !.fn = "attachDebugger", !.tab = tab, !.pc = "attach"]
  /\ UNCHANGED <<returned, debuggerAttached, sessions, chromeAttached, tabsOpen,
                 networkRequests, consoleLogs, animations, extensionErrorStore,
                 exceptDebug>>

\* cdp_attach: attachDebugger(tabId) up to its await.
CallAttachDebugger(tab) ==
  /\ MayCall(tab)
  /\ opsStarted' = opsStarted + 1
  /\ IF Attached(tab)
       THEN /\ returned' = Return("attachDebugger", tab, "already")
            /\ cdp' = cdp
       ELSE /\ cdp' = [NoCdp EXCEPT !.fn = "attachDebugger", !.tab = tab,
                                     !.pc = "attach"]
            /\ returned' = returned
  /\ UNCHANGED <<debuggerAttached, sessions, chromeAttached, tabsOpen,
                 networkRequests, consoleLogs, animations, extensionErrorStore,
                 exceptDebug>>

\* sendCDPCommand that goes on to the command after a failed attach.
ChromeAttachDoneIgnoresError(ok) ==
  LET t == cdp.tab
      new == Len(sessions) + 1
  IN
  /\ cdp.pc = "attach"
  /\ ok => t \in tabsOpen /\ t \notin chromeAttached
  /\ chromeAttached' = IF ok THEN chromeAttached \cup {t} ELSE chromeAttached
  /\ sessions' = IF ok THEN Append(sessions, NewSession) ELSE sessions
  /\ debuggerAttached' = IF ok THEN [debuggerAttached EXCEPT ![t] = new]
                               ELSE debuggerAttached
  /\ IF cdp.fn = "attachDebugger"
       THEN /\ cdp' = NoCdp
            /\ returned' = Return(cdp.fn, t, IF ok THEN "success" ELSE "attach error")
       ELSE /\ cdp' = [cdp EXCEPT !.pc = "command", !.session = new]
            /\ returned' = returned
  /\ UNCHANGED <<tabsOpen, networkRequests, consoleLogs, animations,
                 extensionErrorStore, opsStarted, exceptDebug>>

\* chrome.debugger.attach is settled. The browser attaches only to a tab that
\* exists and has no debugger yet; it may refuse any tab. After a success the
\* session object is recorded; attachDebugger returns and, inside
\* sendCDPCommand, the command is issued in the same run.
ChromeAttachDone(ok) ==
  LET t == cdp.tab
      new == Len(sessions) + 1
  IN
  /\ cdp.pc = "attach"
  /\ ok => t \in tabsOpen /\ t \notin chromeAttached
  /\ chromeAttached' = IF ok THEN chromeAttached \cup {t} ELSE chromeAttached
  /\ sessions' = IF ok THEN Append(sessions, NewSession) ELSE sessions
  /\ debuggerAttached' = IF ok THEN [debuggerAttached EXCEPT ![t] = new]
                               ELSE debuggerAttached
  /\ IF cdp.fn = "attachDebugger" \/ ~ok
       THEN /\ cdp' = NoCdp
            /\ returned' = Return(cdp.fn, t, IF ok THEN "success" ELSE "attach error")
       ELSE /\ cdp' = [cdp EXCEPT !.pc = "command", !.session = new]
            /\ returned' = returned
  /\ UNCHANGED <<tabsOpen, networkRequests, consoleLogs, animations,
                 extensionErrorStore, opsStarted, exceptDebug>>

\* cdp_detach: detachDebugger(tabId) up to its await.
CallDetachDebugger(tab) ==
  /\ MayCall(tab)
  /\ opsStarted' = opsStarted + 1
  /\ IF ~Attached(tab)
       THEN /\ returned' = Return("detachDebugger", tab, "already")
            /\ cdp' = cdp
       ELSE /\ cdp' = [NoCdp EXCEPT !.fn = "detachDebugger", !.tab = tab,
                                     !.pc = "detach"]
            /\ returned' = returned
  /\ UNCHANGED <<debuggerAttached, sessions, chromeAttached, tabsOpen,
                 networkRequests, consoleLogs, animations, extensionErrorStore,
                 exceptDebug>>

\* chrome.debugger.detach is settled.
ChromeDetachDone(ok) ==
  LET t == cdp.tab IN
  /\ cdp.pc = "detach"
  /\ ok => t \in chromeAttached
  /\ chromeAttached' = IF ok THEN chromeAttached \ {t} ELSE chromeAttached
  /\ debuggerAttached' = IF ok THEN [debuggerAttached EXCEPT ![t] = 0]
                               ELSE debuggerAttached
  /\ cdp' = NoCdp
  /\ returned' = Return(cdp.fn, t, IF ok THEN "success" ELSE "detach error")
  /\ UNCHANGED <<sessions, tabsOpen, networkRequests, consoleLogs, animations,
                 extensionErrorStore, opsStarted, exceptDebug>>

\* sendCDPCommand that sends the enable of the method's domain in place of the
\* method.
CallSendCDPCommandEnables(tab, domain, verb) ==
  /\ MayCall(tab)
  /\ opsStarted' = opsStarted + 1
  /\ cdp' = StartCommand("sendCDPCommand", tab, domain, "enable", 0)
  /\ UNCHANGED <<returned, debuggerAttached, sessions, chromeAttached, tabsOpen,
                 networkRequests, consoleLogs, animations, extensionErrorStore,
                 exceptDebug>>

\* cdp_command: sendCDPCommand(tabId, method) up to its first await.
CallSendCDPCommand(tab, domain, verb) ==
  /\ MayCall(tab)
  /\ opsStarted' = opsStarted + 1
  /\ cdp' = StartCommand("sendCDPCommand", tab, domain, verb, 0)
  /\ UNCHANGED <<returned, debuggerAttached, sessions, chromeAttached, tabsOpen,
                 networkRequests, consoleLogs, animations, extensionErrorStore,
                 exceptDebug>>

\* startNetworkMonitoring (Network) and getCDPConsoleLogs (Runtime) up to the
\* first await: enableCDPDomain(tabId, domain) reads the session object of the
\* tab into tabData, answers "already" if the domain is in its set, and calls
\* sendCDPCommand(tabId, domain + ".enable") otherwise.
CallEnableCDPDomain(tab, domain) ==
  LET tabData == debuggerAttached[tab] IN
  /\ MayCall(tab)
  /\ opsStarted' = opsStarted + 1
  /\ IF tabData # 0 /\ domain \in sessions[tabData].domains
       THEN /\ returned' = Return("enableCDPDomain", tab, "already")
            /\ cdp' = cdp
       ELSE /\ cdp' = StartCommand("enableCDPDomain", tab, domain, "enable", tabData)
            /\ returned' = returned
  /\ UNCHANGED <<debuggerAttached, sessions, chromeAttached, tabsOpen,
                 networkRequests, consoleLogs, animations, extensionErrorStore,
                 exceptDebug>>

\* The session objects after the command of the suspended operation is settled.
\* enableCDPDomain with a marking that does not look at the result.
SettledMarksAlways(ok) ==
  LET marked == IF cdp.fn = "enableCDPDomain" /\ cdp.tabData # 0
                  THEN [sessions EXCEPT ![cdp.tabData].domains = @ \cup {cdp.domain}]
                  ELSE sessions
  IN IF cdp.fn = "enableCDPDomain" /\ ok
       THEN [marked EXCEPT ![cdp.session].enabled = @ \cup {cdp.domain}]
       ELSE marked

\* The session objects after the command of the suspended operation is settled:
\* enableCDPDomain adds the domain to the set of tabData, the object it read
\* before the call, if there was one and the result has no error.
Settled(ok) ==
  LET marked == IF cdp.fn = "enableCDPDomain" /\ ok /\ cdp.tabData # 0
                  THEN [sessions EXCEPT ![cdp.tabData].domains = @ \cup {cdp.domain}]
                  ELSE sessions
  IN IF cdp.fn = "enableCDPDomain" /\ ok
       THEN [marked EXCEPT ![cdp.session].enabled = @ \cup {cdp.domain}]
       ELSE marked

\* chrome.debugger.sendCommand is settled: the browser runs a command only on a
\* tab it is attached to, and may fail any command. sendCDPCommand returns the
\* result or {error}; startNetworkMonitoring then resets the tab's log.
ChromeCommandDone(ok) ==
  LET t == cdp.tab IN
  /\ cdp.pc = "command"
  /\ ok => t \in chromeAttached
  /\ sessions' = Settled(ok)
  /\ networkRequests' = IF cdp.fn = "enableCDPDomain" /\ cdp.domain = "Network"
                           THEN MapSet(networkRequests, t, EmptyLog)
                           ELSE networkRequests
  /\ cdp' = NoCdp
  /\ returned' = Return(cdp.fn, t, IF ok THEN "result" ELSE "command error")
  /\ UNCHANGED <<debuggerAttached, chromeAttached, tabsOpen, consoleLogs,
                 animations, extensionErrorStore, opsStarted, exceptDebug>>

\* m.get(tabId) || []
LogOf(m, tab) == IF tab \in DOMAIN m THEN m[tab] ELSE EmptyLog

\* list.push(entry); if (list.length > max) list.shift(); m.set(tabId, list)
Logged(m, tab, max) ==
  LET list == LogOf(m, tab)
  IN  MapSet(m, tab, IF list.len + 1 > max
                       THEN [first |-> list.first + 1, len |-> list.len]
                       ELSE [first |-> list.first, len |-> list.len + 1])

\* chrome.debugger.onEvent: an event of an attached tab is logged by its kind.
\* (Network.responseReceived completes an entry of the network list and changes
\* the length of no list; the two Animation events take the same branch.)
OnEvent(tab, method) ==
  /\ tab \in chromeAttached
  /\ networkRequests' = IF method = "Network.requestWillBeSent"
                           THEN Logged(networkRequests, tab, NetworkLogMax)
                           ELSE networkRequests
  /\ consoleLogs' = IF method = "Runtime.consoleAPICalled"
                       THEN Logged(consoleLogs, tab, ConsoleLogMax)
                     ELSE IF method = "Runtime.exceptionThrown"
                       THEN MapSet(consoleLogs, tab,
                                   [LogOf(consoleLogs, tab) EXCEPT !.len = @ + 1])
                       ELSE consoleLogs
  /\ animations' = IF method = "Animation.animationCreated"
                      THEN Logged(animations, tab, AnimationLogMax) ELSE animations
  /\ UNCHANGED <<debuggerAttached, sessions, chromeAttached, tabsOpen,
                 extensionErrorStore, cdp, returned, opsStarted, exceptDebug>>

\* The list that the event is appended to.
LogFor(tab, method) ==
  IF method = "Network.requestWillBeSent" THEN LogOf(networkRequests, tab)
  ELSE IF method = "Animation.animationCreated" THEN LogOf(animations, tab)
  ELSE LogOf(consoleLogs, tab)

\* The number of events of the tab that have been logged since its lists were
\* created.
Arrived(tab) ==
  LogOf(networkRequests, tab).first + LogOf(networkRequests, tab).len
  + LogOf(consoleLogs, tab).first + LogOf(consoleLogs, tab).len
  + LogOf(animations, tab).first + LogOf(animations, tab).len

\* The stores of the extensions whose page was the tab are purged as well.
OnRemovedPurgesStore(tab) ==
  /\ tab \in tabsOpen
  /\ tabsOpen' = tabsOpen \ {tab}
  /\ chromeAttached' = chromeAttached \ {tab}
  /\ debuggerAttached' = [debuggerAttached EXCEPT ![tab] = 0]
  /\ networkRequests' = MapDelete(networkRequests, tab)
  /\ consoleLogs' = MapDelete(consoleLogs, tab)
  /\ animations' = MapDelete(animations, tab)
  /\ extensionErrorStore' =
       [x \in {y \in DOMAIN extensionErrorStore :
                 stores[extensionErrorStore[y]].tabId # tab}
          |-> extensionErrorStore[x]]
  /\ UNCHANGED <<sessions, cdp, returned, opsStarted, exceptDebug>>

\* The tab-removed listener without the purge of the animation list.
OnRemovedKeepsAnimations(tab) ==
  /\ tab \in tabsOpen
  /\ tabsOpen' = tabsOpen \ {tab}
  /\ chromeAttached' = chromeAttached \ {tab}
  /\ debuggerAttached' = [debuggerAttached EXCEPT ![tab] = 0]
  /\ networkRequests' = MapDelete(networkRequests, tab)
  /\ consoleLogs' = MapDelete(consoleLogs, tab)
  /\ UNCHANGED <<animations, sessions, extensionErrorStore, cdp, returned,
                 opsStarted, exceptDebug>>

\* chrome.tabs.onRemoved: the tab is closed (its debugger goes with it); the
\* listener deletes the tab's session entry and its three logs.
OnRemoved(tab) ==
  /\ tab \in tabsOpen
  /\ tabsOpen' = tabsOpen \ {tab}
  /\ chromeAttached' = chromeAttached \ {tab}
  /\ debuggerAttached' = [debuggerAttached EXCEPT ![tab] = 0]
  /\ networkRequests' = MapDelete(networkRequests, tab)
  /\ consoleLogs' = MapDelete(consoleLogs, tab)
  /\ animations' = MapDelete(animations, tab)
  /\ UNCHANGED <<sessions, extensionErrorStore, cdp, returned, opsStarted,
                 exceptDebug>>

\* The detach event that leaves the session entry in place.
OnDetachKeepsEntry(tab) ==
  /\ tab \in chromeAttached
  /\ chromeAttached' = chromeAttached \ {tab}
  /\ UNCHANGED <<debuggerAttached, sessions, tabsOpen, networkRequests, consoleLogs,
                 animations, extensionErrorStore, cdp, returned, opsStarted,
                 exceptDebug>>

\* chrome.debugger.onDetach: somebody else (the user, the DevTools window)
\* detached the debugger from the tab; the listener deletes the session entry.
OnDetach(tab) ==
  /\ tab \in chromeAttached
  /\ chromeAttached' = chromeAttached \ {tab}
  /\ debuggerAttached' = [debuggerAttached EXCEPT ![tab] = 0]
  /\ UNCHANGED <<sessions, tabsOpen, networkRequests, consoleLogs, animations,
                 extensionErrorStore, cdp, returned, opsStarted, exceptDebug>>

\* --------------------------------------------- captureExtensionErrors
\* The invocations of captureExtensionErrors that are followed, and the tab that
\* chrome.tabs.create gives each of them: tab ids are never used twice.
Captures == 1..MaxCaptures
PageOf(c) == MaxTabs + c
Pages == {PageOf(c) : c \in Captures}
NoExt == ""

\* Where a capture is suspended inside sendCDPCommand's attachDebugger, by the
\* command it is about to send.
AttachFor == [console |-> "console.attach", runtime |-> "runtime.attach",
              evaluate |-> "evaluate.attach"]

NoCapture == [pc |-> "none", ext |-> NoExt, keep |-> FALSE, tab |-> 0, store |-> 0,
              listening |-> FALSE, since |-> 0, result |-> "none", errors |-> <<>>]

\* The store object of an extension: { errors: [], console: [], tabId }. An
\* entry is written as the time it was recorded at (its timestamp), and the
\* time is counted in clear_extension_errors calls.
NewStore(tab) == [errors |-> <<>>, console |-> <<>>, tabId |-> tab]

\* The number of entries of a store object.
Entries(s) == Len(stores[s].errors) + Len(stores[s].console)

\* The invocation returns.
CaptureReturns(c, result) ==
  [capture[c] EXCEPT !.pc = "done", !.result = result,
                     !.errors = IF result = "success"
                                  THEN stores[capture[c].store].errors ELSE <<>>]

\* sendCDPCommand(tab.id, ...) up to its first await: at chrome.debugger.attach
\* if the tab has no session, at chrome.debugger.sendCommand otherwise.
CaptureSends(c, step) ==
  [capture[c] EXCEPT !.pc = IF Attached(capture[c].tab) THEN step
                            ELSE AttachFor[step]]

\* captureExtensionErrors(extensionId, options) up to its first await,
\* chrome.management.get. options.closeTab === false is keep.
CaptureCall(c, ext, keep) ==
  /\ capture[c].pc = "none"
  /\ \A d \in Captures : d < c => capture[d].pc # "none"
  /\ capture' = [capture EXCEPT ![c] =
       IF ext = NoExt
         THEN [@ EXCEPT !.pc = "done", !.result = "error", !.since = epoch]
         ELSE [@ EXCEPT !.pc = "info", !.ext = ext, !.keep = keep, !.since = epoch]]
  /\ UNCHANGED <<stores, epoch, debugVars, exceptCapture>>

\* chrome.management.get is settled: the extension is found and
\* chrome.tabs.create is called, or it is not and the function returns an error.
CaptureInfoDone(c, ok) ==
  /\ capture[c].pc = "info"
  /\ capture' = [capture EXCEPT ![c] =
       IF ok THEN [@ EXCEPT !.pc = "create"]
             ELSE [@ EXCEPT !.pc = "done", !.result = "error"]]
  /\ UNCHANGED <<stores, epoch, debugVars, exceptCapture>>

\* chrome.tabs.create is settled: the page exists and the 300 ms wait starts.
CaptureTabCreated(c, ok) ==
  /\ capture[c].pc = "create"
  /\ IF ok
       THEN /\ capture' = [capture EXCEPT ![c].pc = "load", ![c].tab = PageOf(c)]
            /\ tabsOpen' = tabsOpen \cup {PageOf(c)}
       ELSE /\ capture' = [capture EXCEPT ![c].pc = "done", ![c].result = "error"]
            /\ tabsOpen' = tabsOpen
  /\ UNCHANGED <<stores, epoch, debuggerAttached, sessions, chromeAttached,
                 networkRequests, consoleLogs, animations, extensionErrorStore, cdp,
                 returned, opsStarted, exceptCapture>>

\* The 300 ms are over: attachDebugger(tab.id) up to its await, which it
\* reaches because the page is new and has no session.
CaptureLoaded(c) ==
  /\ capture[c].pc = "load"
  /\ capture' = [capture EXCEPT ![c].pc = "attach"]
  /\ UNCHANGED <<stores, epoch, debugVars, exceptCapture>>

\* if (!extensionErrorStore.has(extensionId)) extensionErrorStore.set(...);
\* const store = extensionErrorStore.get(extensionId); store.tabId = tab.id
CaptureStoreInit(c) ==
  LET ext == capture[c].ext
      has == ext \in DOMAIN extensionErrorStore
      store == IF has THEN extensionErrorStore[ext] ELSE Len(stores) + 1
  IN
  /\ extensionErrorStore' = MapSet(extensionErrorStore, ext, store)
  /\ stores' = IF has THEN [stores EXCEPT ![store].tabId = capture[c].tab]
                      ELSE Append(stores, NewStore(capture[c].tab))
  /\ capture' = [capture EXCEPT ![c].pc = "window", ![c].store = store,
                                ![c].listening = TRUE]

\* The end of the capture once Runtime.evaluate is settled: the values found are
\* pushed, the listener is removed, and the page is closed (detachDebugger up
\* to its await) unless it is to be kept.
CaptureFinish(c, found) ==
  LET s == capture[c].store
      after == IF found THEN [stores EXCEPT ![s].errors = Append(@, epoch)]
                        ELSE stores
      off == [capture[c] EXCEPT !.listening = FALSE]
  IN
  /\ found => Entries(s) < MaxErrors
  /\ stores' = after
  /\ capture' = [capture EXCEPT ![c] =
       IF off.keep
         THEN [off EXCEPT !.pc = "done", !.result = "success",
                          !.errors = after[s].errors]
         ELSE [off EXCEPT !.pc = IF Attached(off.tab) THEN "detach" ELSE "remove"]]
  /\ UNCHANGED extensionErrorStore

\* chrome.debugger.attach is settled, for attachDebugger called by the capture
\* itself or by one of its sendCDPCommand calls. The browser attaches only to a
\* tab that exists and has no debugger yet. After a failure the capture removes
\* the page and gives up; sendCDPCommand returns the error to a caller that
\* ignores it.
CaptureAttachDone(c, ok) ==
  LET t == capture[c].tab
      at == capture[c].pc
  IN
  /\ at \in {"attach", "console.attach", "runtime.attach", "evaluate.attach"}
  /\ ok => t \in tabsOpen /\ t \notin chromeAttached
  /\ chromeAttached' = IF ok THEN chromeAttached \cup {t} ELSE chromeAttached
  /\ sessions' = IF ok THEN Append(sessions, NewSession) ELSE sessions
  /\ debuggerAttached' = IF ok THEN [debuggerAttached EXCEPT ![t] = Len(sessions) + 1]
                               ELSE debuggerAttached
  /\ IF ok
       THEN /\ capture' = [capture EXCEPT ![c].pc =
                             CASE at = "runtime.attach" -> "runtime"
                               [] at = "evaluate.attach" -> "evaluate"
                               [] OTHER -> "console"]
            /\ UNCHANGED <<stores, extensionErrorStore>>
       ELSE CASE at = "attach" ->
                   /\ capture' = [capture EXCEPT ![c].pc = "abort"]
                   /\ UNCHANGED <<stores, extensionErrorStore>>
              [] at = "console.attach" ->
                   /\ capture' = [capture EXCEPT ![c] = CaptureSends(c, "runtime")]
                   /\ UNCHANGED <<stores, extensionErrorStore>>
              [] at = "runtime.attach" -> CaptureStoreInit(c)
              [] at = "evaluate.attach" -> CaptureFinish(c, FALSE)
  /\ UNCHANGED <<epoch, tabsOpen, networkRequests, consoleLogs, animations, cdp,
                 returned, opsStarted, exceptCapture>>

\* chrome.debugger.sendCommand is settled, for Console.enable, Runtime.enable or
\* Runtime.evaluate; found: the evaluation returned a list that is not empty.
CaptureCommandDone(c, found) ==
  /\ capture[c].pc \in {"console", "runtime", "evaluate"}
  /\ found => capture[c].pc = "evaluate"
  /\ CASE capture[c].pc = "console" ->
            /\ capture' = [capture EXCEPT ![c] = CaptureSends(c, "runtime")]
            /\ UNCHANGED <<stores, extensionErrorStore>>
       [] capture[c].pc = "runtime" -> CaptureStoreInit(c)
       [] capture[c].pc = "evaluate" -> CaptureFinish(c, found)
  /\ UNCHANGED <<epoch, debuggerAttached, sessions, chromeAttached, tabsOpen,
                 networkRequests, consoleLogs, animations, cdp, returned, opsStarted,
                 exceptCapture>>

\* errorHandler, the listener of the capture: an exception or a console message
\* of its page is pushed to the store the capture holds.
ErrorHandler(c, method) ==
  LET s == capture[c].store IN
  /\ capture[c].listening
  /\ capture[c].tab \in chromeAttached
  /\ Entries(s) < MaxErrors
  /\ stores' = IF method = "Runtime.exceptionThrown"
                 THEN [stores EXCEPT ![s].errors = Append(@, epoch)]
                 ELSE [stores EXCEPT ![s].console = Append(@, epoch)]
  /\ UNCHANGED <<capture, epoch, debugVars, exceptCapture>>

\* The observation window (options.waitTime) is over: sendCDPCommand(tab.id,
\* 'Runtime.evaluate') up to its first await.
CaptureWindowOver(c) ==
  /\ capture[c].pc = "window"
  /\ capture' = [capture EXCEPT ![c] = CaptureSends(c, "evaluate")]
  /\ UNCHANGED <<stores, epoch, debugVars, exceptCapture>>

\* chrome.debugger.detach is settled; chrome.tabs.remove is called next.
CaptureDetachDone(c, ok) ==
  LET t == capture[c].tab IN
  /\ capture[c].pc = "detach"
  /\ ok => t \in chromeAttached
  /\ chromeAttached' = IF ok THEN chromeAttached \ {t} ELSE chromeAttached
  /\ debuggerAttached' = IF ok THEN [debuggerAttached EXCEPT ![t] = 0]
                               ELSE debuggerAttached
  /\ capture' = [capture EXCEPT ![c].pc = "remove"]
  /\ UNCHANGED <<stores, epoch, sessions, tabsOpen, networkRequests, consoleLogs,
                 animations, extensionErrorStore, cdp, returned, opsStarted,
                 exceptCapture>>

\* chrome.tabs.remove is settled. It is fulfilled when the browser has closed
\* the page (the tab-removed event comes first). It is rejected when the page
\* was gone already or when the browser refuses to edit its tabs (while the
\* user drags one); the rejection is caught and returned as an error, like the
\* failure to attach.
CaptureRemoveDone(c, ok) ==
  /\ capture[c].pc \in {"abort", "remove"}
  /\ ok => capture[c].tab \notin tabsOpen
  /\ capture' = [capture EXCEPT ![c] =
       CaptureReturns(c, IF ok /\ capture[c].pc = "remove" THEN "success"
                         ELSE "error")]
  /\ UNCHANGED <<stores, epoch, debugVars, exceptCapture>>

\* clear_extension_errors that leaves the store where it is.
ClearExtensionErrorsKeepsStore(ext) ==
  /\ epoch < MaxClears
  /\ epoch' = epoch + 1
  /\ UNCHANGED <<capture, stores, debugVars, exceptCapture>>

\* clear_extension_errors: extensionErrorStore.delete(params.extensionId)
ClearExtensionErrors(ext) ==
  /\ epoch < MaxClears
  /\ epoch' = epoch + 1
  /\ extensionErrorStore' = MapDelete(extensionErrorStore, ext)
  /\ UNCHANGED <<capture, stores, debuggerAttached, sessions, chromeAttached,
                 tabsOpen, networkRequests, consoleLogs, animations, cdp, returned,
                 opsStarted, exceptCapture>>

\* Two captures at once, one sent by the relay and one by the sidebar, with the
\* events of their pages: the pages throw and log, the user closes them, and
\* the stores are cleared.
NextCapture ==
  \/ \E c \in Captures, ext \in Extensions \cup {NoExt}, keep \in BOOLEAN :
       CaptureCall(c, ext, keep)
  \/ \E c \in Captures, ok \in BOOLEAN : CaptureInfoDone(c, ok)
  \/ \E c \in Captures, ok \in BOOLEAN : CaptureTabCreated(c, ok)
  \/ \E c \in Captures : CaptureLoaded(c)
  \/ \E c \in Captures, ok \in BOOLEAN : CaptureAttachDone(c, ok)
  \/ \E c \in Captures, found \in BOOLEAN : CaptureCommandDone(c, found)
  \/ \E c \in Captures :
       \E method \in {"Runtime.exceptionThrown", "Console.messageAdded"} :
         ErrorHandler(c, method)
  \/ \E c \in Captures : CaptureWindowOver(c)
  \/ \E c \in Captures, ok \in BOOLEAN : CaptureDetachDone(c, ok)
  \/ \E c \in Captures, ok \in BOOLEAN : CaptureRemoveDone(c, ok)
  \/ \E ext \in Extensions : ClearExtensionErrors(ext)
  \/ \E tab \in Pages : OnRemoved(tab)

\* No capture is running.
CapturesIdle == \A c \in Captures : capture[c].pc \in {"none", "done"}

\* Captures one after the other, with the pages closed and the debugger
\* detached from them by the user at any moment.
NextCycles ==
  \/ \E c \in Captures, ext \in Extensions \cup {NoExt}, keep \in BOOLEAN :
       CapturesIdle /\ CaptureCall(c, ext, keep)
  \/ \E c \in Captures, ok \in BOOLEAN : CaptureInfoDone(c, ok)
  \/ \E c \in Captures, ok \in BOOLEAN : CaptureTabCreated(c, ok)
  \/ \E c \in Captures : CaptureLoaded(c)
  \/ \E c \in Captures, ok \in BOOLEAN : CaptureAttachDone(c, ok)
  \/ \E c \in Captures, found \in BOOLEAN : CaptureCommandDone(c, found)
  \/ \E c \in Captures :
       \E method \in {"Runtime.exceptionThrown", "Console.messageAdded"} :
         ErrorHandler(c, method)
  \/ \E c \in Captures : CaptureWindowOver(c)
  \/ \E c \in Captures, ok \in BOOLEAN : CaptureDetachDone(c, ok)
  \/ \E c \in Captures, ok \in BOOLEAN : CaptureRemoveDone(c, ok)
  \/ \E ext \in Extensions : ClearExtensionErrors(ext)
  \/ \E tab \in Pages : OnRemoved(tab)
  \/ \E tab \in Pages : OnDetach(tab)

CdpMethods == {"Network.requestWillBeSent", "Runtime.consoleAPICalled",
               "Runtime.exceptionThrown", "Animation.animationCreated"}

NextDebug ==
  \/ \E tab \in Tabs : CallAttachDebugger(tab)
  \/ \E ok \in BOOLEAN : ChromeAttachDone(ok)
  \/ \E tab \in Tabs : CallDetachDebugger(tab)
  \/ \E ok \in BOOLEAN : ChromeDetachDone(ok)
  \/ \E tab \in Tabs, domain \in Domains, verb \in {"enable", "get"} :
       CallSendCDPCommand(tab, domain, verb)
  \/ \E tab \in Tabs, domain \in Domains : CallEnableCDPDomain(tab, domain)
  \/ \E ok \in BOOLEAN : ChromeCommandDone(ok)
  \/ \E tab \in Tabs : OnRemoved(tab)
  \/ \E tab \in Tabs : OnDetach(tab)

\* The per-tab logs, with the debugger attached and detached by cdp_attach and
\* cdp_detach.
NextTabState ==
  \/ \E tab \in Tabs : CallAttachDebugger(tab)
  \/ \E ok \in BOOLEAN : ChromeAttachDone(ok)
  \/ \E tab \in Tabs : CallDetachDebugger(tab)
  \/ \E ok \in BOOLEAN : ChromeDetachDone(ok)
  \/ \E tab \in Tabs, method \in CdpMethods :
       LogFor(tab, method).len < MaxLog /\ OnEvent(tab, method)
  \/ \E tab \in Tabs : OnRemoved(tab)
  \/ \E tab \in Tabs : OnDetach(tab)

\* ------------------------------------------------------------- port probe
\* checker.on('connect'): checker.end(); connectAsClient()
ProbeConnect ==
  /\ checker = "connecting"
  /\ checker' = "connect"
  /\ role' = "client"
  /\ UNCHANGED <<chromeClient, pendingRequests, timers, requestId, requestQueue,
                 isProcessingQueue, pc, awaiting, nextCall, resolveLog, sentLog,
                 discarded, restarts, dialled, exceptRelay>>

\* checker.on('error'): the HTTP and WebSocket servers are created and listen.
ProbeError ==
  /\ checker = "connecting"
  /\ checker' = "error"
  /\ role' = "server"
  /\ UNCHANGED <<chromeClient, pendingRequests, timers, requestId, requestQueue,
                 isProcessingQueue, pc, awaiting, nextCall, resolveLog, sentLog,
                 discarded, restarts, dialled, exceptRelay>>

\* setTimeout(() => checker.destroy(), 200): a socket destroyed without an
\* error argument emits neither 'connect' nor 'error' afterwards.
ProbeTimeout ==
  /\ checker = "connecting"
  /\ checker' = "destroyed"
  /\ UNCHANGED <<relayVars, exceptRelay>>

\* ------------------------------------------------------------ specification
\* The state of both programs when they have been loaded.
Loaded ==
  /\ chromeClient = 0
  /\ pendingRequests = EmptyMap
  /\ timers = EmptyMap
  /\ requestId = 0
  /\ requestQueue = <<>>
  /\ isProcessingQueue = FALSE
  /\ pc = "idle"
  /\ awaiting = 0
  /\ nextCall = 0
  /\ resolveLog = <<>>
  /\ sentLog = <<>>
  /\ discarded = {}
  /\ restarts = 0
  /\ dialled = FALSE
  /\ rstate = [c \in Conns |-> "none"]
  /\ asock = [c \in Conns |-> "none"]
  /\ wire = [c \in Conns |-> <<>>]
  /\ toRelay = [c \in Conns |-> <<>>]
  /\ mcpWebSocket = 0
  /\ messageQueue = <<>>
  /\ isProcessingMessages = FALSE
  /\ executing = NoMsg
  /\ sidebarCalls = 0
  /\ agentEnabled = TRUE
  /\ activeTab = TRUE
  /\ xcall = NoExec
  /\ xlog = <<>>
  /\ agentPermissions = Permissions
  /\ asked = NoAsk
  /\ booted = FALSE
  /\ relayUp = FALSE
  /\ shouldReconnect = FALSE
  /\ reconnectAttempts = 0
  /\ reconnectTimer = FALSE
  /\ timeouts = 0
  /\ mcpServerRunning = FALSE
  /\ keepaliveInterval = FALSE
  /\ created = 0
  /\ wsockets = [connecting |-> 0, closing |-> 0]
  /\ wcurrent = "null"
  /\ badge = "disconnected"
  /\ pstate = "none"
  /\ pingInterval = FALSE
  /\ isAlive = FALSE
  /\ pingWire = <<>>
  /\ pongWire = <<>>
  /\ answered = <<>>
  /\ errored = FALSE
  /\ terminated = FALSE
  /\ stdout = <<>>
  /\ callReq = EmptyMap
  /\ requests = <<>>
  /\ serverStarted = FALSE
  /\ startTimers = 0
  /\ debuggerAttached = [t \in Tabs \cup Pages |-> 0]
  /\ sessions = <<>>
  /\ chromeAttached = {}
  /\ tabsOpen = Tabs
  /\ networkRequests = EmptyMap
  /\ consoleLogs = EmptyMap
  /\ animations = EmptyMap
  /\ extensionErrorStore = EmptyMap
  /\ cdp = NoCdp
  /\ returned = NoReturn
  /\ opsStarted = 0
  /\ capture = [c \in Captures |-> NoCapture]
  /\ stores = <<>>
  /\ epoch = 0

\* The relay when its port probe has decided the role: 'connect' made it the
\* client, 'error' the server.
Init ==
  /\ role \in {"server", "client"}
  /\ checker = (IF role = "server" THEN "error" ELSE "connect")
  /\ lazyStart = FALSE
  /\ probes = 1
  /\ Loaded

Next ==
  \/ \E fail \in BOOLEAN : SubmitCall(fail)
  \/ \E fail \in BOOLEAN : DelayDone(fail)
  \/ \E id \in Calls : TimerFire(id)
  \/ \E c \in Conns : ServerMessage(c)
  \/ \E c \in Conns : ClientMessage(c)
  \/ \E c \in Conns : RelayClosing(c)
  \/ \E c \in Conns : ServerClose(c)
  \/ \E c \in Conns : ClientClose(c)
  \/ \E c \in Conns : ClientOpen(c)
  \/ \E c \in Conns : ClientDialFail(c)
  \/ \E c \in Conns : AgentConnect(c)
  \/ \E c \in Conns : handleMCPMessage(c)
  \/ \E threw \in BOOLEAN : processMessageQueue(threw)
  \/ \E c \in Conns : AgentSockClose(c)

Spec == Init /\ [][Next]_vars

\* The runtime runs a timer that is due: an armed 30 s timer fires and the
\* 50 ms pause ends.
Fairness ==
  /\ WF_vars(\E id \in Calls : TimerFire(id))
  /\ WF_vars(\E fail \in BOOLEAN : DelayDone(fail))

FairSpec == Spec /\ Fairness

\* The relay process may also be restarted while the agent keeps running.
NextRestart == Next \/ RelayRestart

SpecRestart == Init /\ [][NextRestart]_vars

\* The agent also serves the tool calls of its sidebar.
NextSidebar == Next \/ SidebarToolCall \/ SidebarToolDone

SpecSidebar == Init /\ [][NextSidebar]_vars

\* executeToolCall followed step by step, with the permission switch and the
\* active tab changing under it.
NextExec ==
  \/ \E tool \in Tools : ExecCall(tool)
  \/ ExecTabsQuery
  \/ \E threw \in BOOLEAN : ExecOperationDone(threw)
  \/ \E enabled \in BOOLEAN, permissions \in SUBSET Permissions :
       SetAgentEnabled(enabled, permissions)
  \/ ActiveTabChanges

SpecExec == Init /\ [][NextExec]_vars

\* The requests for a navigation, a screenshot or a script run, as tool calls
\* and as messages, while the popup switches the agent and its permissions.
NextPermissions ==
  \/ \E tool \in DOMAIN Guarded : ExecCall(tool)
  \/ ExecTabsQuery
  \/ \E threw \in BOOLEAN : ExecOperationDone(threw)
  \/ \E enabled \in BOOLEAN, permissions \in SUBSET Permissions :
       SetAgentEnabled(enabled, permissions)
  \/ \E type \in DOMAIN MessageTypes : OnMessage(type)

SpecPermissions == Init /\ [][NextPermissions]_vars

\* The dispatcher as long as no SET_AGENT_ENABLED message has come.
NextDefaults ==
  \/ \E tool \in Tools : ExecCall(tool)
  \/ ExecTabsQuery
  \/ \E threw \in BOOLEAN : ExecOperationDone(threw)
  \/ ActiveTabChanges

SpecDefaults == Init /\ [][NextDefaults]_vars

\* The agent's connection management.
NextReconnect ==
  \/ AutoConnect
  \/ \E current \in BOOLEAN : SocketOpens(current)
  \/ \E current \in BOOLEAN : SocketFails(current)
  \/ \E current \in BOOLEAN : SocketCloses(current)
  \/ ReconnectTimerFires
  \/ KeepaliveTick
  \/ AlarmTick
  \/ PopupStart
  \/ PopupStop
  \/ RelayAvailability

SpecReconnect == Init /\ [][NextReconnect]_vars

\* The liveness check of one connection accepted in the server role.
NextPing ==
  \/ PingConnection
  \/ PingTick
  \/ \E answers \in BOOLEAN : PeerGetsPing(answers)
  \/ OnPong
  \/ OnPingMessage
  \/ OnPingError
  \/ OnPingClose

SpecPing == Init /\ [][NextPing]_vars

\* The relay from the start of its process: startWsServer probes the port.
InitProbe ==
  /\ role = "none"
  /\ checker = "connecting"
  /\ lazyStart = FALSE
  /\ probes = 1
  /\ Loaded

NextProbe == Next \/ ProbeConnect \/ ProbeError \/ ProbeTimeout

SpecProbe == InitProbe /\ [][NextProbe]_vars

\* --------------------------------------------------------- transport front
\* The resolutions of the promise callTool returned for call k.
Resolutions(k) == SelectSeq(resolveLog, LAMBDA e : e.call = k)
\* The methods handleMcp tells apart; "other" is any method it has no branch for.
Methods == {"initialize", "notifications/initialized", "tools/list", "tools/call",
            "resources/list", "prompts/list", "other"}

\* The id of a response line when the request had no id: JSON.stringify leaves
\* the undefined member out.
NoId == 0

\* sendMcp: one line on stdout.
sendMcp(out, id, kind) == Append(out, [id |-> id, kind |-> kind])

\* handleMcp for the methods answered at once: the lines on stdout afterwards.
handleMcp(out, id, method) ==
  CASE method = "initialize" -> sendMcp(out, id, "result")
    [] method = "notifications/initialized" -> out
    [] method = "tools/list" -> sendMcp(out, id, "result")
    [] method = "resources/list" -> sendMcp(out, id, "result")
    [] method = "prompts/list" -> sendMcp(out, id, "result")
    [] OTHER -> sendMcp(out, id, "error")

\* initialize that arms the timer of startWsServer whatever serverStarted is.
startOnInitializeUnguarded == TRUE

\* handleMcp for initialize in the relay file that starts its peer channel with
\* the handshake: the timer of startWsServer is armed if (!serverStarted).
startOnInitialize == ~serverStarted

\* rl.on('line'): one line of stdin that JSON.parse accepts. hasId, hasParams:
\* the members the message has. The request's id is the number of its line. A
\* tools/call without params throws in the destructuring of handleMcp, and the
\* exception ends in the catch of the line handler.
OnLine(hasId, method, hasParams, fail) ==
  LET id == IF hasId THEN Len(requests) + 1 ELSE NoId IN
  /\ Len(requests) < MaxLines
  /\ IF lazyStart /\ method = "initialize"
        THEN /\ serverStarted' = TRUE
             /\ startTimers' = startTimers + (IF startOnInitialize THEN 1 ELSE 0)
        ELSE UNCHANGED <<serverStarted, startTimers>>
  /\ UNCHANGED <<lazyStart, probes>>
  /\ requests' = Append(requests, [id |-> id, method |-> method,
                                    params |-> hasParams])
  /\ IF method = "tools/call" /\ hasParams
        THEN /\ callTool(fail)
             /\ callReq' = MapSet(callReq, nextCall + 1, id)
             /\ stdout' = stdout
        ELSE /\ stdout' = IF method # "tools/call"
                             THEN handleMcp(stdout, id, method)
                             ELSE stdout
             /\ UNCHANGED <<relayVars, connVars, agentVars, backVars, callReq>>

\* The lines the continuations of callTool have written: one per call that has
\* been resolved, with the id of its request.
ToolResponses == {k \in DOMAIN callReq : Resolutions(k) # <<>>}

\* The continuation with a failure of the tool turned into a JSON-RPC error.
toolResponseAsFault(id, value) ==
  [id |-> id, kind |-> IF value.error # "" THEN "error" ELSE "result",
   isError |-> value.error # "", error |-> value.error]

\* The continuation of callTool in handleMcp: the line it writes for the value
\* the call was resolved with. A value with an error member becomes the text
\* "Error: <error>" of an ordinary result.
toolResponse(id, value) ==
  [id |-> id, kind |-> "result", isError |-> value.error # "",
   error |-> value.error]

\* The line written for call k, which has been resolved.
ToolResponseLine(k) == toolResponse(callReq[k], Resolutions(k)[1].value)

\* Number of response lines written so far that carry this id.
ResponseLines(id) ==
  Cardinality({i \in 1..Len(stdout) : stdout[i].id = id})
    + Cardinality({k \in ToolResponses : callReq[k] = id})

NextFront ==
  \/ \E hasId, hasParams, fail \in BOOLEAN : \E method \in Methods :
       OnLine(hasId, method, hasParams, fail)
  \/ \E fail \in BOOLEAN : DelayDone(fail)
  \/ \E id \in Calls : TimerFire(id)
  \/ \E c \in Conns : ServerMessage(c)
  \/ \E c \in Conns : ClientMessage(c)
  \/ \E c \in Conns : RelayClosing(c)
  \/ \E c \in Conns : ServerClose(c)
  \/ \E c \in Conns : ClientClose(c)
  \/ \E c \in Conns : ClientOpen(c)
  \/ \E c \in Conns : ClientDialFail(c)
  \/ \E c \in Conns : AgentConnect(c)
  \/ \E c \in Conns : handleMCPMessage(c)
  \/ \E threw \in BOOLEAN : processMessageQueue(threw)
  \/ \E c \in Conns : AgentSockClose(c)

SpecFront == Init /\ [][NextFront]_vars

\* setTimeout(startWsServer, 50) fires: startWsServer creates the probe socket.
StartWsServerTimer ==
  /\ startTimers > 0
  /\ startTimers' = startTimers - 1
  /\ probes' = probes + 1
  /\ checker' = "connecting"
  /\ UNCHANGED <<lazyStart, serverStarted, relayVars, connVars, agentVars,
                 sidebarCalls, execVars, reconnVars, pingVars, frontVars, debugVars,
                 captureVars>>

SpecDebug == Init /\ [][NextDebug]_vars

SpecTabState == Init /\ [][NextTabState]_vars

\* The lists of one tab under a long run of events: cdp_attach is called once
\* for the tab and MaxEvents events of it arrive.
LoggedTab == CHOOSE tab \in Tabs : TRUE

NextEvents ==
  \/ opsStarted = 0 /\ CallAttachDebugger(LoggedTab)
  \/ \E ok \in BOOLEAN : ChromeAttachDone(ok)
  \/ \E method \in CdpMethods :
       Arrived(LoggedTab) < MaxEvents /\ OnEvent(LoggedTab, method)

SpecEvents == Init /\ [][NextEvents]_vars

SpecCapture == Init /\ [][NextCapture]_vars

SpecCycles == Init /\ [][NextCycles]_vars

\* Either relay file from the start of its process, before an agent is around:
\* one calls startWsServer when it is loaded, the other on the first initialize.
InitHandshake ==
  /\ lazyStart \in BOOLEAN
  /\ role = "none"
  /\ checker = (IF lazyStart THEN "none" ELSE "connecting")
  /\ probes = (IF lazyStart THEN 0 ELSE 1)
  /\ Loaded

NextHandshake ==
  \/ \E hasId, hasParams, fail \in BOOLEAN : \E method \in Methods :
       OnLine(hasId, method, hasParams, fail)
  \/ StartWsServerTimer
  \/ ProbeConnect
  \/ ProbeError
  \/ ProbeTimeout

SpecHandshake == InitHandshake /\ [][NextHandshake]_vars

\* A client that sends tools/call lines only, with timers that fire.
NextToolCalls ==
  \/ \E hasId, hasParams, fail \in BOOLEAN :
       OnLine(hasId, "tools/call", hasParams, fail)
  \/ \E fail \in BOOLEAN : DelayDone(fail)
  \/ \E id \in Calls : TimerFire(id)
  \/ \E c \in Conns : ServerMessage(c)
  \/ \E c \in Conns : ClientMessage(c)
  \/ \E c \in Conns : RelayClosing(c)
  \/ \E c \in Conns : ServerClose(c)
  \/ \E c \in Conns : ClientClose(c)
  \/ \E c \in Conns : ClientOpen(c)
  \/ \E c \in Conns : ClientDialFail(c)
  \/ \E c \in Conns : AgentConnect(c)
  \/ \E c \in Conns : handleMCPMessage(c)
  \/ \E threw \in BOOLEAN : processMessageQueue(threw)
  \/ \E c \in Conns : AgentSockClose(c)

FairSpecToolCalls == Init /\ [][NextToolCalls]_vars /\ Fairness

\* ------------------------------------------------------------ observations
ResolvedWith(k, v) == \E i \in 1..Len(resolveLog) :
                        resolveLog[i].call = k /\ resolveLog[i].value = v
GotResult(k) == \E i \in 1..Len(resolveLog) :
                  resolveLog[i].call = k /\ resolveLog[i].value.error = ""
WasSent(k) == \E i \in 1..Len(sentLog) : sentLog[i].call = k
\* resolveLog' is resolveLog with exactly one more resolution, of call k with v.
ResolvesNow(k, v) == resolveLog' = Append(resolveLog, [call |-> k, value |-> v])
Closes(c) == ServerClose(c) \/ ClientClose(c)
ReceivesToolResult(c) ==
  /\ ServerMessage(c) \/ ClientMessage(c)
  /\ Head(toRelay[c]).type = "tool_result"

\* ------------------------------------------------------------------ claims

\* C1: every submitted call is resolved exactly once, with a result or an
\* error value: its resolve callback is never invoked twice, a call that was
\* not submitted is never resolved, and every submitted call is eventually
\* resolved.
C1_ResolvedExactlyOnce ==
  /\ [](\A k \in Calls : Len(Resolutions(k)) <= (IF k <= nextCall THEN 1 ELSE 0))
  /\ \A k \in Calls : (k <= nextCall) ~> (Len(Resolutions(k)) = 1)

C1_Witness ==
  /\ nextCall >= 2
  /\ \A k \in 1..nextCall : Len(Resolutions(k)) = 1
  /\ \E k \in 1..nextCall : GotResult(k)
  /\ \E k \in 1..nextCall : ~GotResult(k)

\* C2 as stated: every tool_call sent before the latest one has received its
\* tool_result or has timed out.
C2_SingleFlightResultOrTimeout ==
  \A i \in 1..Len(sentLog) :
    i < Len(sentLog) =>
      GotResult(sentLog[i].call) \/ ResolvedWith(sentLog[i].call, TimeoutError)

\* C2 amended: when a tool_call is sent, every tool_call sent before it has been
\* resolved (by its tool_result, by its timeout or by the close of the active
\* peer), and the pending table never holds more than one call.
C2_SingleFlight ==
  /\ Cardinality(DOMAIN pendingRequests) <= 1
  /\ \A i \in 1..Len(sentLog) :
       i < Len(sentLog) => Len(Resolutions(sentLog[i].call)) = 1

C2_Witness ==
  /\ Len(sentLog) >= 2
  /\ DOMAIN pendingRequests = {sentLog[Len(sentLog)].id}
  /\ GotResult(sentLog[1].call)

\* The connection on which the tool_call with this id was sent.
SentOn(id) ==
  LET i == CHOOSE j \in 1..Len(sentLog) :
             sentLog[j].id = id /\ sentLog[j].call = pendingRequests[id]
  IN sentLog[i].conn

\* C3 as stated: whenever a connection closes, the calls that were sent on it
\* and are pending are resolved with the connection-closed error and the
\* pending table is empty afterwards, also when another connection has
\* registered since.
C3_CloseResolvesSentCalls ==
  [][\A c \in Conns :
       (Closes(c) /\ \E id \in DOMAIN pendingRequests : SentOn(id) = c) =>
         /\ pendingRequests' = EmptyMap
         /\ \A id \in DOMAIN pendingRequests :
              ResolvesNow(pendingRequests[id], ConnectionClosed)]_vars

\* C3 amended: when the active peer (chromeClient) closes, every pending call is
\* resolved with the connection-closed error and the pending table is empty
\* afterwards, in both roles; when a connection closes that is not the active
\* peer (one replaced by a later registration), the pending table and the
\* callers are left as they are.
C3_ActivePeerCloseResolvesPending ==
  [][\A c \in Conns :
       Closes(c) =>
         IF c = chromeClient
         THEN /\ pendingRequests' = EmptyMap
              /\ timers' = EmptyMap
              /\ chromeClient' = 0
              /\ \A id \in DOMAIN pendingRequests :
                   ResolvesNow(pendingRequests[id], ConnectionClosed)
              /\ pendingRequests = EmptyMap => resolveLog' = resolveLog
         ELSE UNCHANGED <<pendingRequests, timers, resolveLog, chromeClient>>]_vars

C3_Witness ==
  /\ \E k \in Calls : ResolvedWith(k, ConnectionClosed)
  /\ pendingRequests = EmptyMap
  /\ chromeClient = 0

\* C4: when the 30 s timer of a pending call fires, the call is resolved with
\* {error: 'Timeout'} and its entry is removed; and a pending call does not
\* stay pending for ever when no result arrives.
C4_Timeout ==
  /\ [][\A id \in Calls :
          TimerFire(id) =>
            /\ id \in DOMAIN pendingRequests
            /\ id \notin DOMAIN pendingRequests'
            /\ id \notin DOMAIN timers'
            /\ ResolvesNow(pendingRequests[id], TimeoutError)]_vars
  /\ \A k \in Calls : (pc = "await" /\ awaiting = k) ~> (Len(Resolutions(k)) = 1)

C4_Witness ==
  \E i \in 1..Len(sentLog) :
    /\ ResolvedWith(sentLog[i].call, TimeoutError)
    /\ sentLog[i].id \notin DOMAIN pendingRequests

\* C5 as stated: a call submitted while no peer is connected (chromeClient is
\* null) is resolved at once with 'Not connected' and does not stay queued.
C5_OfflineSubmitResolvedAtOnce ==
  [][\A fail \in BOOLEAN :
       (callTool(fail) /\ chromeClient = 0) =>
          /\ ResolvesNow(nextCall + 1, NotConnected)
          /\ requestQueue' = <<>>]_vars

\* C5 amended: a call submitted while no open peer is connected and while the
\* relay is not busy with an earlier call (none pending, no pause between two
\* calls running) is resolved at once with 'Not connected'; no tool_call is
\* sent and no pending entry is created for it then, and none ever is for a
\* call answered 'Not connected', even if a peer connects afterwards.
C5_IdleOfflineSubmitResolvedAtOnce ==
  /\ [][\A fail \in BOOLEAN :
          (callTool(fail) /\ ~PeerOpen /\ ~isProcessingQueue) =>
             /\ ResolvesNow(nextCall + 1, NotConnected)
             /\ requestQueue' = <<>>
             /\ UNCHANGED <<sentLog, pendingRequests, timers, requestId, wire>>]_vars
  /\ [](\A k \in Calls : ResolvedWith(k, NotConnected) =>
          /\ ~WasSent(k)
          /\ \A id \in DOMAIN pendingRequests : pendingRequests[id] # k
          /\ Len(Resolutions(k)) = 1)

C5_Witness ==
  /\ \E k \in Calls : ResolvedWith(k, NotConnected)
  /\ PeerOpen
  /\ sentLog # <<>>

\* C6: in the server role, a caller that receives a result payload receives the
\* payload the agent produced for that caller's own tool_call, never the payload
\* of another tool_call, also not of one the agent accepted on an earlier
\* connection.
C6_CallerGetsOwnPayload ==
  role = "server" =>
    \A i \in 1..Len(resolveLog) :
      resolveLog[i].value.error = "" =>
        resolveLog[i].value.forCall = resolveLog[i].call

\* C7: a tool_result whose id is not in the pending table leaves the pending
\* table, the timers, the submission queue, the active peer and every caller's
\* outcome unchanged.
C7_UnknownIdDiscarded ==
  [][\A c \in Conns :
       (ReceivesToolResult(c) /\ Head(toRelay[c]).id \notin DOMAIN pendingRequests) =>
          UNCHANGED <<pendingRequests, timers, requestQueue, chromeClient, resolveLog,
                      sentLog, requestId, isProcessingQueue, pc, awaiting>>]_vars

C7_Witness ==
  \E i \in 1..Len(sentLog) :
    /\ sentLog[i].id \in discarded
    /\ ResolvedWith(sentLog[i].call, TimeoutError)

\* C8: when the active peer closes, the submission queue is empty once the
\* close has been handled.
C8_QueueClearedOnClose ==
  [][\A c \in Conns : (Closes(c) /\ c = chromeClient) => requestQueue' = <<>>]_vars

\* C9: tool_call messages are sent in the order in which the calls were
\* submitted and callers are resolved in that order (calls are numbered in
\* submission order), and the queue holds the calls in submission order.
C9_Fifo ==
  /\ \A i, j \in 1..Len(sentLog) : i < j => sentLog[i].call < sentLog[j].call
  /\ \A i, j \in 1..Len(resolveLog) : i < j => resolveLog[i].call < resolveLog[j].call
  /\ \A i, j \in 1..Len(requestQueue) : i < j => requestQueue[i] < requestQueue[j]
  /\ \A i \in 1..Len(requestQueue) : \A j \in 1..Len(resolveLog) :
       resolveLog[j].call < requestQueue[i]

C9_Witness ==
  /\ Len(sentLog) >= 2
  /\ Len(resolveLog) >= 2
  /\ requestQueue # <<>>
  /\ \E i \in 1..Len(resolveLog) :
       resolveLog[i].value \in {TimeoutError, ConnectionClosed}

\* C10: the active peer is one connection; a tool_call is handed only to the
\* active peer, which is open then, and to no other connection; a connection
\* that registers becomes the active peer, whichever was active before.
C10_SingleActivePeer ==
  [][/\ sentLog' # sentLog =>
          /\ PeerOpen
          /\ Len(sentLog') = Len(sentLog) + 1
          /\ sentLog'[Len(sentLog')].conn = chromeClient
          /\ chromeClient' = chromeClient
     /\ \A c \in Conns :
          Len(wire'[c]) > Len(wire[c]) =>
            c = chromeClient /\ sentLog'[Len(sentLog')].conn = c
     /\ \A c \in Conns :
          (ServerMessage(c) /\ Head(toRelay[c]).type = "register") =>
             chromeClient' = c]_vars

C10_Witness ==
  /\ chromeClient = 2
  /\ rstate[1] = "open"
  /\ \E i \in 1..Len(sentLog) : sentLog[i].conn = 1
  /\ sentLog[Len(sentLog)].conn = 2

\* C11: within one relay process every tool_call sent carries an id strictly
\* greater than every id allocated before it, so the ids of the tool_calls sent
\* are pairwise different, an id in the pending table is one that was allocated
\* (never above requestId, so the next id is not pending), and every pending id
\* belongs to exactly one sent call.
C11_IdsUnique ==
  /\ \A i, j \in 1..Len(sentLog) : i < j => sentLog[i].id < sentLog[j].id
  /\ \A i \in 1..Len(sentLog) : sentLog[i].id >= i /\ sentLog[i].id <= requestId
  /\ \A id \in DOMAIN pendingRequests :
       /\ id <= requestId
       /\ Cardinality({i \in 1..Len(sentLog) : sentLog[i].id = id}) = 1
       /\ \A i \in 1..Len(sentLog) :
            sentLog[i].id = id => sentLog[i].call = pendingRequests[id]

C11_Witness ==
  /\ Len(sentLog) >= 2
  /\ requestId > Len(sentLog)
  /\ pendingRequests # EmptyMap

\* The agent's execution of a tool_call ends in this step.
ExecutionEnds == executing # NoMsg /\ executing' # executing

C18_RegisterBeforeToolCall ==
  [][/\ \A c \in Conns :
          (chromeClient' = c /\ chromeClient # c) =>
             /\ Deliverable(c)
             /\ Head(toRelay[c]).type = "register"
             /\ toRelay'[c] = Tail(toRelay[c])
     /\ sentLog' # sentLog => sentLog'[Len(sentLog')].conn = chromeClient]_vars

\* The number of executeToolCall runs in progress.
ExecutionsInProgress == (IF executing # NoMsg THEN 1 ELSE 0) + sidebarCalls

\* C13: at no instant are two executeToolCall runs in progress, whether they
\* come from relayed tool_call messages or from sidebar tool calls.
C13_OneExecutionAtATime == ExecutionsInProgress <= 1

\* C14: a run of executeToolCall for a tool of neither table enters the
\* operation only if agent control was enabled when it was called and
\* tabs.query found an active tab; called with agent control disabled it
\* returns 'Agent control is disabled', called with it enabled and without an
\* active tab it returns 'No active tab', and in both cases no operation is
\* attempted (so nothing an operation writes is changed).
C14_GatedToolNeedsPermissionAndTab ==
  /\ \A i \in 1..Len(xlog) :
       xlog[i].tool \notin noAgentRequired \cup noTabRequired =>
         /\ xlog[i].attempted <=> (xlog[i].enabled /\ xlog[i].tab)
         /\ ~xlog[i].enabled <=> xlog[i].outcome = "Agent control is disabled"
         /\ (xlog[i].enabled /\ ~xlog[i].tab) <=> xlog[i].outcome = "No active tab"
         /\ xlog[i].attempted <=> xlog[i].outcome \in {"result", "error"}
  /\ (xcall.phase = "operation"
        /\ xcall.tool \notin noAgentRequired \cup noTabRequired) =>
       xcall.enabled /\ xcall.tab
  /\ (xcall # NoExec /\ xcall.tool \notin noAgentRequired) => xcall.enabled

C14_Witness ==
  /\ Len(xlog) = 2
  /\ xlog[1].tool = "browser_click" /\ xlog[2].tool = "browser_click"
  /\ xlog[1].outcome = "Agent control is disabled"
  /\ xlog[2].outcome = "No active tab"
  /\ xcall = NoExec

\* The agent has given up: auto-reconnect is on, the maximum number of
\* attempts is used up, nothing is scheduled and no socket is alive.
GaveUp ==
  /\ shouldReconnect
  /\ reconnectAttempts = MAX_RECONNECT_ATTEMPTS
  /\ ~reconnectTimer /\ timeouts = 0
  /\ wcurrent = "closed"
  /\ wsockets = [connecting |-> 0, closing |-> 0]

\* C15: once the agent has given up, the status shown is disconnected and no
\* timer, keepalive tick or alarm starts another connection attempt.
C15_NoAttemptAfterGivingUp ==
  /\ [](GaveUp => badge = "disconnected")
  /\ [][(GaveUp /\ (ReconnectTimerFires \/ KeepaliveTick \/ AlarmTick)) =>
          created' = created]_vars

\* The last n pings sent all went unanswered.
LastPingsUnanswered(n) ==
  /\ Len(answered) >= n
  /\ \A i \in 1..Len(answered) : i > Len(answered) - n => ~answered[i]

\* C16 as stated: the relay terminates a connection only when the peer failed
\* to answer the last two pings; a connection whose peer answered at least
\* one of the last two pings is not terminated.
C16_TwoMissedPings == terminated => LastPingsUnanswered(2)

\* C16 amended: the relay terminates a connection at a tick of the ping
\* interval exactly when nothing of the peer arrived since the previous tick's
\* ping or an error event came after the last arrival: a terminated connection
\* left the last ping unanswered or had an error event, a connection that
\* answered the last ping and had no error event since is not terminated at
\* the tick, and one that left the last ping unanswered until the tick is.
C16_OneMissedPing ==
  /\ [](terminated => (LastPingsUnanswered(1) \/ errored))
  /\ [][(PingTick /\ pstate = "open") =>
          /\ (answered # <<>> /\ answered[Len(answered)] /\ ~errored) => ~terminated'
          /\ LastPingsUnanswered(1) => terminated'
          /\ errored => terminated']_vars

C16_Witness ==
  /\ terminated
  /\ Len(answered) >= 2
  /\ answered[Len(answered) - 1]
  /\ ~answered[Len(answered)]
  /\ ~errored

\* C17: once the port probe is over, the relay has exactly one role: it dials
\* out as client or listens as server.
C17_ExactlyOneRole == checker # "connecting" => role \in {"server", "client"}

\* The request lines read so far that carry an id and name one of the methods of
\* the claim: the handshake, a listing, tools/call, a method without a branch.
RequestsWithId ==
  {i \in 1..Len(requests) : /\ requests[i].id # NoId
                             /\ requests[i].method # "notifications/initialized"}

\* C19: a request line that carries an id gets exactly one response line with
\* that id: at once for the methods answered at once, and for tools/call the
\* call is submitted and its line is written once the call is resolved.
C19_OneResponsePerRequestId ==
  \A i \in RequestsWithId :
    IF requests[i].method = "tools/call"
      THEN /\ \E k \in DOMAIN callReq : callReq[k] = requests[i].id
           /\ \A k \in DOMAIN callReq :
                callReq[k] = requests[i].id =>
                  ResponseLines(requests[i].id)
                    = (IF Resolutions(k) # <<>> THEN 1 ELSE 0)
      ELSE ResponseLines(requests[i].id) = 1

\* C20: no response line is written for a request line without an id.
C20_NoResponseWithoutId == ResponseLines(NoId) = 0

\* The tools/call requests that were handed to callTool, by call.
ToolFailed(k, e) == k \in ToolResponses /\ ToolResponseLine(k).error = e

\* C21: a failure of a tool call (no peer, timeout, peer disconnect, send
\* failure, an error value or exception of the agent) reaches the client as an
\* ordinary result line that carries the error, never as a JSON-RPC error line,
\* and every tools/call handed to callTool eventually gets its line.
C21_FailureIsOrdinaryResult ==
  /\ [](\A k \in ToolResponses :
          /\ ToolResponseLine(k).kind = "result"
          /\ ToolResponseLine(k).id = callReq[k]
          /\ ToolResponseLine(k).error = Resolutions(k)[1].value.error
          /\ \A i \in 1..Len(stdout) :
               stdout[i].kind = "error" /\ callReq[k] # NoId
                 => stdout[i].id # callReq[k])
  /\ \A k \in Calls : (k \in DOMAIN callReq) ~> (k \in ToolResponses)

C21_Witness ==
  /\ ToolFailed(1, "Timeout") \/ ToolFailed(1, "Connection closed")
  /\ ToolFailed(2, "Not connected") \/ ToolFailed(2, "Tool execution error")

\* Number of initialize requests read so far.
Handshakes ==
  Cardinality({i \in 1..Len(requests) : requests[i].method = "initialize"})

\* C22: whatever the number of initialize requests, startWsServer runs at most
\* once (one port probe, hence at most one listening server or outgoing
\* connection from it), and no timer for a second run is pending.
C22_ChannelEstablishedAtMostOnce ==
  /\ probes + startTimers <= 1
  /\ lazyStart /\ Handshakes = 0 => probes = 0

C22_Witness ==
  /\ lazyStart
  /\ Handshakes >= 2
  /\ probes = 1
  /\ role \in {"server", "client"}

\* The step issues a chrome.debugger operation: the operation gets suspended at
\* the await of that operation.
Issues(op) == cdp'.pc = op /\ cdp.pc # op

\* C23: attachDebugger called for a tab right after attachDebugger for the same
\* tab has returned success (nothing detached the tab in between) returns
\* success with already: true at once, and issues no chrome.debugger.attach.
C23_AttachTwiceAttachesOnce ==
  [][\A tab \in Tabs :
      /\ returned.fn = "attachDebugger" /\ returned.tab = tab
      /\ returned.value \in {"success", "already"}
      /\ tab \in chromeAttached
      /\ CallAttachDebugger(tab)
      => /\ returned' = Return("attachDebugger", tab, "already")
         /\ cdp' = NoCdp
         /\ ~Issues("attach")
         /\ sessions' = sessions]_vars

C23_Witness ==
  /\ opsStarted = 2
  /\ returned.fn = "attachDebugger" /\ returned.value = "already"
  /\ Len(sessions) = 1
  /\ returned.tab \in chromeAttached

\* The step sends the enable of enableCDPDomain.
IssuesImplicitEnable == Issues("command") /\ cdp'.fn = "enableCDPDomain"

\* C24: enableCDPDomain does not send '<Domain>.enable' on a session on which an
\* enable it sent for that domain has succeeded, whether the session was
\* attached beforehand or by that first command.
C24_NoSecondEnable ==
  [][IssuesImplicitEnable
       => cdp'.domain \notin sessions'[cdp'.session].enabled]_vars

\* The enable of enableCDPDomain has just failed on a session that is still the
\* tab's session.
EnableFails ==
  /\ cdp.fn = "enableCDPDomain"
  /\ ChromeCommandDone(FALSE)
  /\ debuggerAttached[cdp.tab] = cdp.session

C26_CommandOnlyOnAttachedSession ==
  /\ [][Issues("command")
          => /\ debuggerAttached'[cdp'.tab] # 0
             /\ cdp'.session = debuggerAttached'[cdp'.tab]
             /\ cdp'.tab \in chromeAttached']_vars
  /\ [][\A tab \in Tabs, domain \in Domains, verb \in {"enable", "get"} :
          CallSendCDPCommand(tab, domain, verb) /\ ~Attached(tab)
          => Issues("attach") /\ cdp'.fn = "sendCDPCommand"]_vars
  /\ [][cdp.fn = "sendCDPCommand" /\ ChromeAttachDone(FALSE)
          => /\ returned' = Return("sendCDPCommand", cdp.tab, "attach error")
             /\ cdp' = NoCdp
             /\ debuggerAttached' = debuggerAttached
             /\ sessions' = sessions]_vars

C26_Witness ==
  /\ returned.fn = "sendCDPCommand" /\ returned.value = "attach error"
  /\ cdp = NoCdp
  /\ ~Attached(returned.tab)
  /\ opsStarted = 1

\* C27 as stated: sendCDPCommand for a method whose domain is not in the enabled
\* set of the tab's session issues the enable of the domain first.
C27_CommandEnablesDomainFirst ==
  [][\A tab \in Tabs, domain \in Domains :
      /\ CallSendCDPCommand(tab, domain, "get")
      /\ Attached(tab)
      /\ domain \notin sessions[debuggerAttached[tab]].domains
      => Issues("command") /\ cdp'.domain = domain /\ cdp'.verb = "enable"]_vars

\* C27: sendCDPCommand issues the method it is given and nothing else, and the
\* enabled sets of the sessions are the same when it returns.
C27_CommandIssuedAsGiven ==
  /\ [][\A tab \in Tabs, domain \in Domains, verb \in {"enable", "get"} :
          CallSendCDPCommand(tab, domain, verb)
          => /\ cdp'.fn = "sendCDPCommand"
             /\ cdp'.domain = domain /\ cdp'.verb = verb]_vars
  /\ [][cdp.fn = "sendCDPCommand"
          => /\ \A k \in 1..Len(sessions) : sessions'[k] = sessions[k]
             /\ cdp' # NoCdp
                  => cdp'.domain = cdp.domain /\ cdp'.verb = cdp.verb]_vars

C27_Witness ==
  /\ returned.fn = "sendCDPCommand" /\ returned.value = "result"
  /\ cdp = NoCdp
  /\ Attached(returned.tab)
  /\ sessions[debuggerAttached[returned.tab]].domains = {}

\* C28: a detach by somebody else and a tab close delete the tab's session entry
\* and return no error to anybody; no entry outlives the browser's session, so
\* the next command for the tab attaches again, and the session it is issued on
\* is a new object with an empty domains set.
C28_ExternalDetachBackToDetached ==
  /\ [][\A tab \in Tabs :
          OnDetach(tab) \/ OnRemoved(tab)
          => /\ debuggerAttached'[tab] = 0
             /\ returned' = returned /\ cdp' = cdp
             /\ \A other \in Tabs \ {tab} :
                  debuggerAttached'[other] = debuggerAttached[other]]_vars
  /\ [](\A tab \in Tabs : Attached(tab) => tab \in chromeAttached)
  /\ [][\A tab \in Tabs, domain \in Domains, verb \in {"enable", "get"} :
          CallSendCDPCommand(tab, domain, verb) /\ tab \notin chromeAttached
          => Issues("attach")]_vars
  /\ [][\E ok \in BOOLEAN : ChromeAttachDone(ok) /\ Issues("command")
          => /\ cdp'.session = Len(sessions) + 1
             /\ sessions'[cdp'.session].domains = {}]_vars

C28_Witness ==
  /\ Len(sessions) = 2
  /\ sessions[1].domains # {}
  /\ sessions[2].domains = {}
  /\ cdp.pc = "command" /\ cdp.session = 2 /\ cdp.fn = "sendCDPCommand"
  /\ debuggerAttached[cdp.tab] = 2

\* The entry of the tab in a Map, <<>> if it has none.
EntryOf(m, tab) == IF tab \in DOMAIN m THEN <<m[tab]>> ELSE <<>>

C30_ExtensionStoresSurvive ==
  /\ [][\A tab \in Pages :
          OnRemoved(tab) \/ OnDetach(tab)
          => extensionErrorStore' = extensionErrorStore /\ stores' = stores]_vars
  /\ [][\A ext \in Extensions :
          ext \in DOMAIN extensionErrorStore /\ ~ClearExtensionErrors(ext)
          => /\ ext \in DOMAIN extensionErrorStore'
             /\ extensionErrorStore'[ext] = extensionErrorStore[ext]]_vars

C30_Witness ==
  \E ext \in Extensions :
    /\ ext \in DOMAIN extensionErrorStore
    /\ stores[extensionErrorStore[ext]].errors # <<>>
    /\ stores[extensionErrorStore[ext]].console # <<>>
    /\ stores[extensionErrorStore[ext]].tabId \notin tabsOpen
    /\ Len(sessions) > MaxCaptures
    /\ CapturesIdle

\* C31: in every state the network list of a tab holds at most 100 entries,
\* its console and exception log at most 100 and its animation list at most 50.
C31_StoresBounded ==
  \A tab \in Tabs :
    /\ LogOf(networkRequests, tab).len <= NetworkLogMax
    /\ LogOf(consoleLogs, tab).len <= ConsoleLogMax
    /\ LogOf(animations, tab).len <= AnimationLogMax

\* a is the beginning of b
IsPrefix(a, b) == Len(a) <= Len(b) /\ SubSeq(b, 1, Len(a)) = a

\* C32: a step that is not clear_extension_errors for the id leaves the id its
\* store object, and every step leaves the entries of every store object where
\* they are, adding at the end only; clear_extension_errors removes the store
\* of the id, a capture that finds no store starts an empty one, and the
\* entries a capture returns were all recorded after the last clear that
\* came before its call.
C32_StoreAppendOnlyUntilClear ==
  /\ [][\A ext \in Extensions :
          ext \in DOMAIN extensionErrorStore /\ ~ClearExtensionErrors(ext)
          => /\ ext \in DOMAIN extensionErrorStore'
             /\ extensionErrorStore'[ext] = extensionErrorStore[ext]]_vars
  /\ [][\A s \in 1..Len(stores) :
          /\ s <= Len(stores')
          /\ IsPrefix(stores[s].errors, stores'[s].errors)
          /\ IsPrefix(stores[s].console, stores'[s].console)]_vars
  /\ [][\A ext \in Extensions :
          ClearExtensionErrors(ext) => ext \notin DOMAIN extensionErrorStore']_vars
  /\ [][\A c \in Captures :
          /\ capture[c].pc # "window" /\ capture'[c].pc = "window"
          /\ capture[c].ext \notin DOMAIN extensionErrorStore
          => /\ extensionErrorStore'[capture[c].ext] = capture'[c].store
             /\ stores'[capture'[c].store] = NewStore(capture[c].tab)]_vars
  /\ [][\A c \in Captures :
          capture'[c].result = "success"
          => \A i \in 1..Len(capture'[c].errors) :
               capture'[c].errors[i] >= capture'[c].since]_vars

C32_Witness ==
  \E c \in Captures :
    /\ capture[c].result = "success"
    /\ capture[c].since = 1
    /\ capture[c].errors # <<>>
    /\ Len(stores) = 2
    /\ stores[1].errors # <<>>
    /\ \E d \in Captures : capture[d].result = "success" /\ capture[d].since = 0

\* C33: when captureExtensionErrors has returned, its listener is not
\* registered, and the page it opened is closed unless it was to be kept.
C33_CaptureReleasesListenerAndPage ==
  \A c \in Captures :
    capture[c].pc = "done"
    => /\ ~capture[c].listening
       /\ capture[c].tab # 0 /\ ~capture[c].keep => capture[c].tab \notin tabsOpen

\* C34: a navigation, screenshot or script run that was performed was asked for
\* while its permission was granted.
C34_NothingPerformedWithoutPermission ==
  asked.outcome = "performed" => asked.granted

\* C35: as long as no SET_AGENT_ENABLED message has come, every run of a tool
\* that requires agent control has returned 'Agent control is disabled'.
C35_DisabledByDefault ==
  \A i \in 1..Len(xlog) :
    xlog[i].tool \notin noAgentRequired
    => xlog[i].outcome = "Agent control is disabled"

\* C36: a non-empty submission queue implies that processQueue is running,
\* isProcessingQueue is false only when the queue is empty, and a call that is
\* in the queue is eventually taken out of it.
C36_DrainNeverStrands ==
  /\ [](requestQueue # <<>> => isProcessingQueue)
  /\ [](~isProcessingQueue => requestQueue = <<>> /\ pc = "idle")
  /\ \A k \in Calls :
       (\E i \in 1..Len(requestQueue) : requestQueue[i] = k)
       ~> ~(\E i \in 1..Len(requestQueue) : requestQueue[i] = k)

C36_Witness ==
  /\ Len(requestQueue) >= 2
  /\ isProcessingQueue
  /\ pc = "await"

\* C37: the close of a connection that is not the active peer leaves the active
\* peer, the pending table, the submission queue and the callers as they are.
C37_OtherCloseLeavesRelayAlone ==
  [][\A c \in Conns :
       Closes(c) /\ c # chromeClient
       => UNCHANGED <<chromeClient, pendingRequests, requestQueue, resolveLog>>]_vars

C37_Witness ==
  \E c \in Conns :
    /\ rstate[c] = "closed"
    /\ chromeClient \notin {0, c}
    /\ pendingRequests # EmptyMap
    /\ requestQueue # <<>>

\* The sockets that are connecting or open for certain: mcpWebSocket while it
\* is connecting or open, and the superseded sockets that are still connecting
\* (a superseded socket that was open is counted with the closing ones).
LiveSockets ==
  (IF wcurrent \in {"connecting", "open"} THEN 1 ELSE 0) + wsockets.connecting

\* C38: the agent has at most one WebSocket to the relay that is open or
\* connecting.
C38_OneSocketAtATime == LiveSockets <= 1

\* C39: mcpServerRunning is true only while mcpWebSocket is open, and the
\* close or error event of a superseded socket that comes while mcpWebSocket
\* is open leaves the flag as it is and schedules no reconnect.
C39_FlagFollowsCurrentSocket ==
  /\ [](mcpServerRunning => CurrentOpen)
  /\ [][(CurrentOpen /\ (SocketCloses(FALSE) \/ SocketFails(FALSE)))
        => /\ mcpServerRunning' = mcpServerRunning
           /\ ~(reconnectTimer' /\ timeouts' > timeouts)]_vars

\* STOP_MCP_SERVER was handled and no START_MCP_SERVER came since
\* (shouldReconnect is set to false by STOP_MCP_SERVER only).
Stopped == booted /\ ~shouldReconnect

\* C40: after STOP_MCP_SERVER and until the next START_MCP_SERVER mcpWebSocket
\* is not open, no socket opens and no step creates a socket.
C40_NothingAfterStop ==
  /\ [](Stopped => ~CurrentOpen)
  /\ [][Stopped => ~(\E current \in BOOLEAN : SocketOpens(current))]_vars
  /\ [][Stopped /\ ~PopupStart => created' = created]_vars

====
